---- MODULE Spec2Model ----
(***************************************************************************)
(* State-machine model of the Cosmos DB chat-history subsystem:           *)
(*   - cosmos_history/cosmos_history_manager.py (CosmosHistoryManager)    *)
(*   - cosmos_history/models/{conversation,message}.py (data model)       *)
(*   - cosmos_history/search_service.py (CosmosSearchService)             *)
(*                                                                         *)
(* The two containers are sets of documents.  A document is the record    *)
(* that to_cosmos_dict() produces: dataclasses_json's to_dict() keeps the *)
(* Python field names (snake_case), and to_cosmos_dict() adds the         *)
(* partition-key fields tenantId / conversationId next to them.  Store    *)
(* queries read the paths named in their SQL text.                        *)
(*                                                                         *)
(* Every store call of the manager is one step of a writer, so calls of   *)
(* independent manager instances interleave between store calls.  Nested  *)
(* dataclasses are flattened: metrics.message_count is message_count,     *)
(* timeline.last_message_at is last_message_at, sender.user_id is         *)
(* sender_user_id, content.text is text.  A message text is modelled by   *)
(* its length.                                                             *)
(***************************************************************************)
EXTENDS Integers, Sequences, FiniteSets, TLC

\* ------------------------------------------------------------------ bounds
MaxMessages == 2
MaxTime == 2

Writers == {"w1", "w2"}
Tenants == {"tA", "tB"}
Users == {"u1", "u2"}
Creators == {"u1"}
ContentLens == {3}
ConvIds == {1, 2}
MsgIds == 1..MaxMessages

\* longest preview prefix kept by update_message_preview
PreviewLimit == 100

VARIABLES
    tenant_id,       \* tenant_id[w]: the tenant manager w is bound to
    conversations,   \* conversations container: set of conversation documents
    messages,        \* messages container: set of message documents
    pc,              \* pc[w]: position of writer w inside its current call
    frame,           \* frame[w]: arguments and locals of the current call
    ret,             \* what the last step returned to its caller, if anything
    nextConvId,      \* source of fresh conversation ids (uuid4)
    nextMsgId,       \* source of fresh message ids (uuid4)
    now,             \* wall clock (datetime.now(), time.time())
    appended,        \* appended[c]: add_message calls on conversation c that
                     \* have returned a message (observer, not program state)
    query_cache,     \* CosmosSearchService.query_cache, in insertion order
    observed,        \* the last search of the watched cache key that queried
                     \* the store, and what happened to its cache entry
                     \* since (observer, not program state)
    inputs,          \* the pair of SearchQuery objects handed to a compiler
    chat_conversation,  \* a ChatConversation object in the caller's hands
    chat_message,       \* a ChatMessage object in the caller's hands
    cosmos_client,      \* a CosmosDBClient under construction and its store account
    migration           \* a DataMigrationService: its local sessions and warnings

histVars == <<tenant_id, conversations, messages, pc, frame, ret, nextConvId,
              nextMsgId, now, appended>>
searchVars == <<query_cache, observed, inputs>>
objVars == <<chat_conversation, chat_message, cosmos_client, migration>>

\* ------------------------------------------------------------- data model
NoConversation == [id |-> 0]
NoMessage == [id |-> 0]

\* ChatConversation.create_new: the creator is the only participant;
\* metrics stay at their dataclass defaults.
ConversationCreateNew(tenant, cid, creator, t) ==
    [id |-> cid, tenant_id |-> tenant, conversation_id |-> cid,
     participants |-> <<creator>>,
     message_count |-> 0, participant_count |-> 0,
     last_message_at |-> t,
     first_message_preview |-> 0, last_message_preview |-> 0,
     status |-> "active", archived |-> FALSE]

\* ChatConversation.to_cosmos_dict: to_dict() plus tenantId, conversationId
ConversationToCosmosDict(c) ==
    [id |-> c.id, tenant_id |-> c.tenant_id, conversation_id |-> c.conversation_id,
     participants |-> c.participants,
     message_count |-> c.message_count, participant_count |-> c.participant_count,
     last_message_at |-> c.last_message_at,
     first_message_preview |-> c.first_message_preview,
     last_message_preview |-> c.last_message_preview,
     status |-> c.status, archived |-> c.archived,
     tenantId |-> c.tenant_id, conversationId |-> c.conversation_id]

\* ChatConversation.from_cosmos_dict: from_dict() reads the dataclass field
\* names and ignores every other key of the document.
ConversationFromCosmosDict(d) ==
    [id |-> d.id, tenant_id |-> d.tenant_id, conversation_id |-> d.conversation_id,
     participants |-> d.participants,
     message_count |-> d.message_count, participant_count |-> d.participant_count,
     last_message_at |-> d.last_message_at,
     first_message_preview |-> d.first_message_preview,
     last_message_preview |-> d.last_message_preview,
     status |-> d.status, archived |-> d.archived]

\* ChatMessage.create_new
MessageCreateNew(mid, cid, tenant, sender, content, seq, t) ==
    [id |-> mid, conversation_id |-> cid, tenant_id |-> tenant,
     sender_user_id |-> sender, text |-> content,
     timestamp |-> t, sequence_number |-> seq]

\* ChatMessage.to_cosmos_dict: to_dict() plus conversationId, tenantId
MessageToCosmosDict(m) ==
    [id |-> m.id, conversation_id |-> m.conversation_id, tenant_id |-> m.tenant_id,
     sender_user_id |-> m.sender_user_id, text |-> m.text,
     timestamp |-> m.timestamp, sequence_number |-> m.sequence_number,
     conversationId |-> m.conversation_id, tenantId |-> m.tenant_id]

\* ChatMessage.from_cosmos_dict
MessageFromCosmosDict(d) ==
    [id |-> d.id, conversation_id |-> d.conversation_id, tenant_id |-> d.tenant_id,
     sender_user_id |-> d.sender_user_id, text |-> d.text,
     timestamp |-> d.timestamp, sequence_number |-> d.sequence_number]

\* ConversationTimeline.update_message_preview, on the preview lengths
PreviewOf(content) ==
    IF content > PreviewLimit THEN PreviewLimit + 3 ELSE content

UpdateMessagePreview(c, content, is_first, t) ==
    [c EXCEPT !.first_message_preview = IF is_first THEN PreviewOf(content) ELSE @,
              !.last_message_preview = PreviewOf(content),
              !.last_message_at = t]

\* ChatConversation.is_participant
IsParticipant(c, user) ==
    \E i \in 1..Len(c.participants) : c.participants[i] = user

\* ChatConversation.add_participant
AddParticipant(c, user) ==
    IF IsParticipant(c, user)
    THEN c
    ELSE [c EXCEPT !.participants = Append(@, user),
                   !.participant_count = Len(c.participants) + 1]


\* ------------------------------------------------------------ store calls
\* conversations_container.read_item(item=f"conv_{id}", partition_key=tenant)
ReadConversationItem(cid, tenant) ==
    {d \in conversations : d.id = cid /\ d.tenantId = tenant}

\* messages_container.read_item(item=message_id, partition_key=conversation_id)
ReadMessageItem(mid, cid) ==
    {d \in messages : d.id = mid /\ d.conversationId = cid}

\* container.replace_item(item, body): replaces the document with that id in
\* the partition of the body; the rest of the container is untouched.
ReplaceItem(container, old, body) ==
    (container \ {old}) \cup {body}

SetMax(S) == CHOOSE x \in S : \A y \in S : y <= x

\* the path the sequence-number queries read (MAX(m.sequenceNumber),
\* ORDER BY m.sequenceNumber)
SequencePath == "sequenceNumber"

\* SELECT VALUE MAX(m.sequenceNumber) FROM m WHERE m.conversationId = @conversationId
\* within partition cid: documents without the path contribute nothing, and
\* an aggregate over nothing yields no item.
QueryMaxSequenceNumber(cid) ==
    LET vals == {d[SequencePath] :
                   d \in {e \in messages : e.conversationId = cid
                                            /\ SequencePath \in DOMAIN e}}
    IN  IF vals = {} THEN <<>> ELSE <<SetMax(vals)>>

\* a default that continues the numbering from the number of stored messages
\* when the query raises
GetNextSequenceNumberFromCount(cid, ok) ==
    IF ok
    THEN LET items == QueryMaxSequenceNumber(cid)
         IN  (IF Len(items) > 0 THEN items[1] ELSE 0) + 1
    ELSE Cardinality({d \in messages : d.conversationId = cid}) + 1

\* _get_next_sequence_number: max + 1, 0 when the query yields nothing,
\* and 1 when the query raises.
GetNextSequenceNumber(cid, ok) ==
    IF ok
    THEN LET items == QueryMaxSequenceNumber(cid)
         IN  (IF Len(items) > 0 THEN items[1] ELSE 0) + 1
    ELSE 1

\* --------------------------------------------------------- manager reads
\* a get_conversation that does not find a soft-deleted conversation
GetConversationNotDeleted(cid, tenant) ==
    LET found == {d \in ReadConversationItem(cid, tenant) : d.status # "deleted"}
    IN  IF found = {} THEN NoConversation
        ELSE ConversationFromCosmosDict(CHOOSE d \in found : TRUE)

\* get_conversation(conversation_id) of a manager bound to tenant
GetConversation(cid, tenant) ==
    LET found == ReadConversationItem(cid, tenant)
    IN  IF found = {} THEN NoConversation
        ELSE ConversationFromCosmosDict(CHOOSE d \in found : TRUE)

\* get_message(message_id, conversation_id)
GetMessage(mid, cid) ==
    LET found == ReadMessageItem(mid, cid)
    IN  IF found = {} THEN NoMessage
        ELSE MessageFromCosmosDict(CHOOSE d \in found : TRUE)

\* get_conversation_messages(conversation_id): the documents of the partition
\* (the result list is consumed whole; its order is not modelled)
GetConversationMessages(cid) ==
    {MessageFromCosmosDict(d) : d \in {e \in messages : e.conversationId = cid}}

\* ----------------------------------------------------------------- frames
EmptyFrame ==
    [op |-> "none", conversation_id |-> 0, sender |-> "none", content |-> 0,
     conversation |-> NoConversation, sequence_number |-> 0,
     message |-> NoMessage, calls |-> {}]

NoReturn ==
    [writer |-> "none", op |-> "none", conversation_id |-> 0, outcome |-> "none",
     message |-> NoMessage, conversation |-> NoConversation,
     value |-> FALSE, warned |-> FALSE, error |-> "none", calls |-> {}]

Returned(w, f, m, c, v, warned, calls) ==
    [writer |-> w, op |-> f.op, conversation_id |-> f.conversation_id, outcome |-> "returned",
     message |-> m, conversation |-> c, value |-> v, warned |-> warned,
     error |-> "none", calls |-> calls]

Raised(w, f, error, calls) ==
    [writer |-> w, op |-> f.op, conversation_id |-> f.conversation_id, outcome |-> "raised",
     message |-> NoMessage, conversation |-> f.conversation,
     value |-> FALSE, warned |-> FALSE, error |-> error, calls |-> calls]

AllIdle == \A w \in Writers : pc[w] = "idle"

HistInit(tenants) ==
    /\ tenant_id = tenants
    /\ conversations = {}
    /\ messages = {}
    /\ pc = [w \in Writers |-> "idle"]
    /\ frame = [w \in Writers |-> EmptyFrame]
    /\ ret = NoReturn
    /\ nextConvId = 1
    /\ nextMsgId = 1
    /\ now = 0
    /\ appended = [c \in ConvIds |-> 0]

Finish(w, r) ==
    /\ pc' = [pc EXCEPT ![w] = "idle"]
    /\ frame' = [frame EXCEPT ![w] = EmptyFrame]
    /\ ret' = r

\* ---------------------------------------------------- create_conversation
\* a create_conversation that empties the search cache when it has stored the
\* conversation
CreateConversationInvalidating(w, creator, ok) ==
    /\ pc[w] = "idle"
    /\ nextConvId \in ConvIds
    /\ LET f == [EmptyFrame EXCEPT !.op = "create_conversation",
                                   !.conversation_id = nextConvId]
           c == ConversationCreateNew(tenant_id[w], nextConvId, creator, now)
           d == ConversationToCosmosDict(c)
       IN  IF ok
           THEN /\ conversations' = conversations \cup {d}
                /\ nextConvId' = nextConvId + 1
                /\ query_cache' = <<>>
                /\ Finish(w, Returned(w, f, NoMessage, ConversationFromCosmosDict(d),
                                      TRUE, FALSE, {"create_conversation"}))
           ELSE /\ UNCHANGED <<conversations, nextConvId, query_cache>>
                /\ Finish(w, Raised(w, f, "store_error", {"create_conversation"}))
    /\ UNCHANGED <<objVars, observed, inputs, appended, tenant_id, messages, nextMsgId, now>>

CreateConversation(w, creator, ok) ==
    /\ pc[w] = "idle"
    /\ nextConvId \in ConvIds
    /\ LET f == [EmptyFrame EXCEPT !.op = "create_conversation",
                                   !.conversation_id = nextConvId]
           c == ConversationCreateNew(tenant_id[w], nextConvId, creator, now)
           d == ConversationToCosmosDict(c)
       IN  IF ok
           THEN /\ conversations' = conversations \cup {d}
                /\ nextConvId' = nextConvId + 1
                /\ Finish(w, Returned(w, f, NoMessage, ConversationFromCosmosDict(d),
                                      TRUE, FALSE, {"create_conversation"}))
           ELSE /\ UNCHANGED <<conversations, nextConvId>>
                /\ Finish(w, Raised(w, f, "store_error", {"create_conversation"}))
    /\ UNCHANGED <<objVars, searchVars, appended, tenant_id, messages, nextMsgId, now>>

\* ------------------------------------------------------------ add_message
\* the existence check left out
ConversationMissingUnchecked(c) == FALSE

\* line 211: "if not conversation"
ConversationMissing(c) == c = NoConversation

\* lines 210-212: get_conversation, then the not-found check
AddMessageBegin(w, cid, sender, content, ok) ==
    /\ pc[w] = "idle"
    /\ LET f == [EmptyFrame EXCEPT !.op = "add_message", !.conversation_id = cid,
                                   !.sender = sender, !.content = content,
                                   !.calls = {"read_conversation"}]
           c == GetConversation(cid, tenant_id[w])
       IN  IF ~ok
           THEN Finish(w, Raised(w, f, "store_error", f.calls))
           ELSE IF ConversationMissing(c)
           THEN Finish(w, Raised(w, f, "conversation_not_found", f.calls))
           ELSE /\ pc' = [pc EXCEPT ![w] = "am_sequence"]
                /\ frame' = [frame EXCEPT ![w] = [f EXCEPT !.conversation = c]]
                /\ ret' = NoReturn
    /\ UNCHANGED <<objVars, searchVars, appended, tenant_id, conversations, messages, nextConvId, nextMsgId, now>>

\* line 215: _get_next_sequence_number
AddMessageSequence(w, ok) ==
    /\ pc[w] = "am_sequence"
    /\ pc' = [pc EXCEPT ![w] = "am_create"]
    /\ LET f == frame[w]
       IN  frame' = [frame EXCEPT ![w] =
                        [f EXCEPT !.sequence_number =
                                      GetNextSequenceNumber(f.conversation_id, ok),
                                  !.calls = @ \cup {"query_max_sequence"}
                                               \cup (IF ok THEN {}
                                                     ELSE {"query_max_sequence_raised"})]]
    /\ ret' = NoReturn
    /\ UNCHANGED <<objVars, searchVars, appended, tenant_id, conversations, messages, nextConvId, nextMsgId, now>>

\* lines 218-237: ChatMessage.create_new, to_cosmos_dict, create_item
AddMessageCreate(w, ok) ==
    /\ pc[w] = "am_create"
    /\ nextMsgId <= MaxMessages
    /\ LET f == frame[w]
           m == MessageCreateNew(nextMsgId, f.conversation_id, tenant_id[w],
                                 f.sender, f.content, f.sequence_number, now)
           calls == f.calls \cup {"create_message"}
       IN  IF ok
           THEN /\ messages' = messages \cup {MessageToCosmosDict(m)}
                /\ nextMsgId' = nextMsgId + 1
                /\ pc' = [pc EXCEPT ![w] = "am_update"]
                /\ frame' = [frame EXCEPT ![w] = [f EXCEPT !.message = m,
                                                           !.calls = calls]]
                /\ ret' = NoReturn
           ELSE /\ UNCHANGED <<messages, nextMsgId>>
                /\ Finish(w, Raised(w, f, "store_error", calls))
    /\ UNCHANGED <<objVars, searchVars, appended, tenant_id, conversations, nextConvId, now>>

\* the in-memory update without the message_count increment
ConversationAfterMessageNoCount(c, m, is_first_message, t) ==
    AddParticipant(UpdateMessagePreview(c, m.text, is_first_message, t),
                   m.sender_user_id)

\* _update_conversation_from_message, lines 382-393: the in-memory update
ConversationAfterMessage(c, m, is_first_message, t) ==
    AddParticipant(
        UpdateMessagePreview([c EXCEPT !.message_count = @ + 1],
                             m.text, is_first_message, t),
        m.sender_user_id)

\* the propagation failure rethrown instead of swallowed
AfterUpdateFailureRethrown(w, f, created, calls) ==
    Raised(w, f, "store_error", calls)

\* what add_message does once update_conversation has raised inside
\* _update_conversation_from_message (lines 398-400, then 242-243)
AfterUpdateFailure(w, f, created, calls) ==
    Returned(w, f, created, f.conversation, TRUE, TRUE, calls)

\* lines 240-243: _update_conversation_from_message, then the return
AddMessageUpdate(w, ok) ==
    /\ pc[w] = "am_update"
    /\ LET f == frame[w]
           c == ConversationAfterMessage(f.conversation, f.message,
                                         f.sequence_number = 1, now)
           old == ReadConversationItem(c.id, c.tenant_id)
           created == MessageFromCosmosDict(MessageToCosmosDict(f.message))
           calls == f.calls \cup {"replace_conversation"}
       IN  IF ok /\ old # {}
           THEN /\ conversations' = ReplaceItem(conversations,
                                                CHOOSE d \in old : TRUE,
                                                ConversationToCosmosDict(c))
                /\ Finish(w, Returned(w, f, created, f.conversation, TRUE, FALSE, calls))
           ELSE /\ UNCHANGED conversations
                /\ Finish(w, AfterUpdateFailure(w, f, created, calls))
    /\ appended' = [appended EXCEPT ![frame[w].conversation_id] =
                        IF ret'.outcome = "returned" THEN @ + 1 ELSE @]
    /\ UNCHANGED <<objVars, searchVars, tenant_id, messages, nextConvId, nextMsgId, now>>


\* ---------------------------------------------------- delete_conversation
\* a soft delete that sets the status only
MarkDeletedStatusOnly(c) == [c EXCEPT !.status = "deleted"]

\* lines 183-184: the soft delete
MarkDeleted(c) == [c EXCEPT !.status = "deleted", !.archived = TRUE]

\* lines 178-180: get_conversation; False when it is not found
DeleteConversationBegin(w, cid, ok) ==
    /\ pc[w] = "idle"
    /\ LET f == [EmptyFrame EXCEPT !.op = "delete_conversation",
                                   !.conversation_id = cid,
                                   !.calls = {"read_conversation"}]
           c == GetConversation(cid, tenant_id[w])
       IN  IF ~ok
           THEN Finish(w, Raised(w, f, "store_error", f.calls))
           ELSE IF ConversationMissing(c)
           THEN Finish(w, Returned(w, f, NoMessage, c, FALSE, FALSE, f.calls))
           ELSE /\ pc' = [pc EXCEPT ![w] = "dc_update"]
                /\ frame' = [frame EXCEPT ![w] = [f EXCEPT !.conversation = c]]
                /\ ret' = NoReturn
    /\ UNCHANGED <<objVars, searchVars, appended, tenant_id, conversations, messages, nextConvId, nextMsgId, now>>

\* lines 183-189: status/archived, update_conversation (replace_item), True
DeleteConversationUpdate(w, ok) ==
    /\ pc[w] = "dc_update"
    /\ LET f == frame[w]
           c == MarkDeleted(f.conversation)
           old == ReadConversationItem(c.id, c.tenant_id)
           calls == f.calls \cup {"replace_conversation"}
       IN  IF ok /\ old # {}
           THEN /\ conversations' = ReplaceItem(conversations,
                                                CHOOSE d \in old : TRUE,
                                                ConversationToCosmosDict(c))
                /\ Finish(w, Returned(w, f, NoMessage, f.conversation, TRUE, FALSE, calls))
           ELSE /\ UNCHANGED conversations
                /\ Finish(w, Raised(w, f, "store_error", calls))
    /\ UNCHANGED <<objVars, searchVars, appended, tenant_id, messages, nextConvId, nextMsgId, now>>

\* --------------------------------------------------------- delete_message
\* messages_container.delete_item(item=message_id, partition_key=conversation_id)
DeleteItem(container, found) == container \ found

\* delete_message(message_id, conversation_id): True, or False on not-found
DeleteMessage(w, mid, cid, ok) ==
    /\ pc[w] = "idle"
    /\ LET f == [EmptyFrame EXCEPT !.op = "delete_message", !.conversation_id = cid,
                                   !.message = [id |-> mid]]
           found == ReadMessageItem(mid, cid)
       IN  IF ~ok
           THEN /\ UNCHANGED messages
                /\ Finish(w, Raised(w, f, "store_error", {"delete_message"}))
           ELSE IF found = {}
           THEN /\ UNCHANGED messages
                /\ Finish(w, Returned(w, f, f.message, NoConversation, FALSE, FALSE,
                                      {"delete_message"}))
           ELSE /\ messages' = DeleteItem(messages, found)
                /\ Finish(w, Returned(w, f, f.message, NoConversation, TRUE, FALSE,
                                      {"delete_message"}))
    /\ UNCHANGED <<objVars, searchVars, appended, tenant_id, conversations, nextConvId, nextMsgId, now>>

\* --------------------------------------------------------- update_message
\* update_message(message): replace_item(item=message.id, body=to_cosmos_dict())
\* with whatever ChatMessage object m the caller hands in
UpdateMessageObject(w, m, ok) ==
    /\ pc[w] = "idle"
    /\ LET f == [EmptyFrame EXCEPT !.op = "update_message",
                                   !.conversation_id = m.conversation_id,
                                   !.message = m]
           old == ReadMessageItem(m.id, m.conversation_id)
       IN  IF ok /\ old # {}
           THEN /\ messages' = ReplaceItem(messages, CHOOSE d \in old : TRUE,
                                           MessageToCosmosDict(m))
                /\ Finish(w, Returned(w, f, MessageFromCosmosDict(MessageToCosmosDict(m)),
                                      NoConversation, TRUE, FALSE, {"replace_message"}))
           ELSE /\ UNCHANGED messages
                /\ Finish(w, Raised(w, f, "store_error", {"replace_message"}))
    /\ UNCHANGED <<objVars, searchVars, appended, tenant_id, conversations, nextConvId, nextMsgId, now>>

\* the caller's object is the stored message with an edited text, or a stale
\* object of a message that is not (or no longer) in the partition.
UpdateMessage(w, mid, cid, content, ok) ==
    LET stored == GetMessage(mid, cid)
    IN  UpdateMessageObject(w,
                            IF stored = NoMessage
                            THEN MessageCreateNew(mid, cid, tenant_id[w], "u1", content, 0, 0)
                            ELSE [stored EXCEPT !.text = content],
                            ok)

\* the objects a caller can hand to update_message: a message read from the
\* store whose public fields the caller has assigned
EditedMessages ==
    {[MessageFromCosmosDict(d) EXCEPT !.text = content, !.sequence_number = n] :
         d \in messages, content \in ContentLens, n \in 1..MaxMessages}

\* ------------------------------------------------------- get_tenant_stats
\* list_conversations(user_id=None, include_archived): the tenant's
\* conversations, the archived ones only on request
ListConversations(tenant, include_archived) ==
    {ConversationFromCosmosDict(d) :
        d \in {e \in conversations :
                 /\ e.tenantId = tenant
                 /\ ~include_archived => e.archived = FALSE}}

\* get_tenant_stats: counts over list_conversations(limit=1000)
TenantStats(tenant) ==
    LET listed == ListConversations(tenant, FALSE)
    IN  [total_conversations |-> Cardinality(listed),
         active_conversations |-> Cardinality({c \in listed : c.status = "active"}),
         archived_conversations |-> Cardinality({c \in listed : c.archived})]

GetTenantStats(w) ==
    /\ pc[w] = "idle"
    /\ ret' = [NoReturn EXCEPT !.writer = w, !.op = "get_tenant_stats",
                               !.outcome = "returned",
                               !.calls = {"query_conversations"},
                               !.value = TenantStats(tenant_id[w])]
    /\ UNCHANGED <<objVars, searchVars, appended, tenant_id, conversations, messages, pc,
                   frame, nextConvId, nextMsgId, now>>

\* ------------------------------------------------------------------ clock
Tick ==
    /\ now < MaxTime
    /\ now' = now + 1
    /\ ret' = NoReturn
    /\ UNCHANGED <<objVars, searchVars, appended, tenant_id, conversations, messages, pc, frame,
                   nextConvId, nextMsgId>>

\* ======================================================== search service
\* bounds of the cache model: the service keeps 100 entries for 300 seconds;
\* the model keeps CacheCapacity entries for CacheTTL clock ticks
CacheCapacity == 2
CacheTTL == 2

Collections == {"conversations", "messages"}

\* ---------------------------------------------------------- SearchQuery
\* A SearchQuery is the record of its fields.  None and "" are both "", None
\* and [] are both <<>>: the compilers only test truthiness.  page_size and
\* continuation_token are left out, no compiler reads them.
NoDateRange == [present |-> FALSE, start_date |-> "", end_date |-> ""]

DateRange(start_date, end_date) ==
    [present |-> TRUE, start_date |-> start_date, end_date |-> end_date]

DefaultQuery ==
    [keyword |-> "", tenant_id |-> "",
     participant_user_ids |-> <<>>, participant_names |-> <<>>,
     category_ids |-> <<>>, category_names |-> <<>>, tags |-> <<>>,
     date_range |-> NoDateRange, sender_roles |-> <<>>,
     sort_field |-> "updatedAt", sort_order |-> "descending",
     include_archived |-> FALSE, high_confidence_only |-> FALSE]

\* the strings datetime.fromisoformat accepts, and the instants they denote
IsoDates == {"2024-01-01", "2024-06-30"}

FromIsoFormat(s) == IF s = "2024-01-01" THEN 1 ELSE 2

\* DateRange.is_valid: both bounds are parsed only when both are given, and
\* a parse error makes the range invalid
DateRangeIsValid(r) ==
    IF r.start_date = "" /\ r.end_date = ""
    THEN TRUE
    ELSE IF r.start_date # "" /\ r.end_date # ""
    THEN IF r.start_date \in IsoDates /\ r.end_date \in IsoDates
         THEN FromIsoFormat(r.start_date) <= FromIsoFormat(r.end_date)
         ELSE FALSE
    ELSE TRUE

\* str.lower on the strings of the model
Lower(s) == IF s = "O'Brien" THEN "o'brien" ELSE s

\* ------------------------------------------------------- query compilers
\* The query text is the sequence of its pieces: Lit is a piece the compiler
\* writes literally, Name(prefix, i) is f"{prefix}{i}".
Lit(s) == [s |-> s, i |-> -1]

Name(prefix, i) == [s |-> prefix, i |-> i]

Param(name, value) == [name |-> name, value |-> value]

When(b, x) == IF b THEN <<x>> ELSE <<>>

RECURSIVE Join(_, _)
\* sep.join(parts), each part a sequence of pieces
Join(parts, sep) ==
    IF parts = <<>> THEN <<>>
    ELSE IF Len(parts) = 1 THEN parts[1]
    ELSE parts[1] \o <<sep>> \o Join(Tail(parts), sep)

RECURSIVE Concat(_)
Concat(parts) ==
    IF parts = <<>> THEN <<>> ELSE parts[1] \o Concat(Tail(parts))

\* one filter of a compiler: the condition it appends and its parameters
Filter(condition, parameters) ==
    [condition |-> condition, parameters |-> parameters]

\* the "for i, v in enumerate(values)" loops: one condition per value, named
\* by its index, joined with OR inside parentheses
ListFilter(before, prefix, after, values) ==
    Filter(<<Lit("(")>>
             \o Join([i \in 1..Len(values) |->
                        <<Lit(before), Name(prefix, i - 1), Lit(after)>>],
                     Lit(" OR "))
             \o <<Lit(")")>>,
           [i \in 1..Len(values) |-> Param(Name(prefix, i - 1), values[i])])

\* the date-range block, shared by both compilers up to the field name
DateFilters(q, field) ==
    LET r == q.date_range
        valid == r.present /\ DateRangeIsValid(r)
    IN  When(valid /\ r.start_date # "",
             Filter(<<Lit(field), Lit(" >= @startDate")>>,
                    <<Param(Lit("@startDate"), r.start_date)>>))
        \o When(valid /\ r.end_date # "",
                Filter(<<Lit(field), Lit(" <= @endDate")>>,
                       <<Param(Lit("@endDate"), r.end_date)>>))

\* the keyword written into the query text
ConversationKeywordConditionInlined(q) ==
    <<Lit("(CONTAINS(c.searchableText, '"), Lit(q.keyword), Lit("'))")>>

\* line 215
ConversationKeywordCondition(q) ==
    <<Lit("(CONTAINS(c.title, @keyword) OR CONTAINS(c.summary, @keyword) OR CONTAINS(c.searchableText, @keyword))")>>

\* _build_conversations_query, lines 205-279: conditions and parameters
ConversationFilters(q) ==
    When(q.tenant_id # "",
         Filter(<<Lit("c.tenantId = @tenantId")>>,
                <<Param(Lit("@tenantId"), q.tenant_id)>>))
    \o When(q.keyword # "",
            Filter(ConversationKeywordCondition(q),
                   <<Param(Lit("@keyword"), Lower(q.keyword))>>))
    \o When(q.participant_user_ids # <<>>,
            ListFilter("ARRAY_CONTAINS(c.participants, {'userId': ", "@userId",
                       "}, true)", q.participant_user_ids))
    \o When(q.participant_names # <<>>,
            ListFilter("ARRAY_CONTAINS(c.participants, {'displayName': ",
                       "@participantName", "}, true)", q.participant_names))
    \o When(q.category_ids # <<>>,
            ListFilter("ARRAY_CONTAINS(c.categories, {'categoryId': ",
                       "@categoryId", "}, true)", q.category_ids))
    \o When(q.category_names # <<>>,
            ListFilter("ARRAY_CONTAINS(c.categories, {'categoryName': ",
                       "@categoryName", "}, true)", q.category_names))
    \o When(q.tags # <<>>,
            ListFilter("ARRAY_CONTAINS(c.tags, ", "@tag", ")", q.tags))
    \o DateFilters(q, "c.timeline.lastMessageAt")
    \o When(~q.include_archived,
            Filter(<<Lit("(c.archived = false OR NOT IS_DEFINED(c.archived))")>>,
                   <<>>))
    \o When(q.high_confidence_only,
            Filter(<<Lit("EXISTS(SELECT VALUE cat FROM cat IN c.categories WHERE cat.confidence >= 0.8)")>>,
                   <<>>))

\* lines 287-293
ConversationSortField(q) ==
    IF q.sort_field = "createdAt" THEN "c.timeline.createdAt"
    ELSE IF q.sort_field = "messageCount" THEN "c.metrics.messageCount"
    ELSE IF q.sort_field = "title" THEN "c.title"
    ELSE "c.timeline.lastMessageAt"

SortOrder(q) == IF q.sort_order = "descending" THEN "DESC" ELSE "ASC"

\* WHERE clause, ORDER BY clause and the final f-string of either compiler
CompiledQuery(select, filters, sort_field, sort_order) ==
    [sql_query |->
         <<Lit(select), Lit(" ")>>
         \o (IF filters = <<>> THEN <<>>
             ELSE <<Lit("WHERE ")>>
                  \o Join([i \in 1..Len(filters) |-> filters[i].condition],
                          Lit(" AND ")))
         \o <<Lit(" "), Lit("ORDER BY "), Lit(sort_field), Lit(" "), Lit(sort_order)>>,
     parameters |-> Concat([i \in 1..Len(filters) |-> filters[i].parameters])]

\* _build_conversations_query
BuildConversationsQuery(q) ==
    CompiledQuery("SELECT * FROM conversations c", ConversationFilters(q),
                  ConversationSortField(q), SortOrder(q))

\* _build_messages_query, lines 375-432: conditions and parameters
MessageFilters(q) ==
    When(q.tenant_id # "",
         Filter(<<Lit("m.tenantId = @tenantId")>>,
                <<Param(Lit("@tenantId"), q.tenant_id)>>))
    \o When(q.keyword # "",
            Filter(<<Lit("CONTAINS(m.content.searchableText, @keyword)")>>,
                   <<Param(Lit("@keyword"), Lower(q.keyword))>>))
    \o When(q.participant_user_ids # <<>>,
            ListFilter("m.sender.userId = ", "@senderId", "",
                       q.participant_user_ids))
    \o When(q.participant_names # <<>>,
            ListFilter("CONTAINS(m.sender.displayName, ", "@senderName", ")",
                       q.participant_names))
    \o When(q.sender_roles # <<>>,
            ListFilter("m.sender.role = ", "@role", "", q.sender_roles))
    \o DateFilters(q, "m.timestamp")
    \o When(q.tags # <<>>,
            ListFilter("ARRAY_CONTAINS(m.metadata.topics, ", "@topic", ")",
                       q.tags))

\* _build_messages_query: messages are always ordered by m.timestamp
BuildMessagesQuery(q) ==
    CompiledQuery("SELECT * FROM messages m", MessageFilters(q),
                  "m.timestamp", SortOrder(q))

\* --------------------------------------------------------- store queries
\* The queries the cache model issues populate tenant_id only, so the store
\* evaluates the tenant predicate and, for conversations, the archived
\* predicate; documents come back through from_cosmos_dict.
CacheQueries ==
    {[DefaultQuery EXCEPT !.tenant_id = t] : t \in Tenants}

\* conversations_container.query_items(query, parameters): the items
QueryConversationItems(q) ==
    {ConversationFromCosmosDict(d) :
        d \in {e \in conversations :
                 /\ q.tenant_id # "" => e.tenantId = q.tenant_id
                 /\ ~q.include_archived => e.archived = FALSE}}

\* messages_container.query_items(query, parameters): the items
QueryMessageItems(q) ==
    {MessageFromCosmosDict(d) :
        d \in {e \in messages : q.tenant_id # "" => e.tenantId = q.tenant_id}}

\* SearchResult(items=items, ...): a result is modelled by its items
SearchResult(items) == [items |-> items]

NoResult == SearchResult({})

\* ------------------------------------------------------------- the cache
\* _generate_cache_key: the digest of the collection name and the query's
\* fields; distinct (collection, query) pairs have distinct digests
GenerateCacheKey(collection, q) == <<collection, q>>

Keys == {GenerateCacheKey(c, q) : c \in Collections, q \in CacheQueries}

NotSearched(k) ==
    [key |-> k, searched |-> FALSE, cached_at |-> 0, result |-> NoResult,
     cleared |-> FALSE, evicted |-> FALSE]

CacheKeys(cache) == {cache[i].key : i \in 1..Len(cache)}

IndexOf(cache, key) == CHOOSE i \in 1..Len(cache) : cache[i].key = key

\* del self.query_cache[key]
Remove(cache, i) == SubSeq(cache, 1, i - 1) \o SubSeq(cache, i + 1, Len(cache))

\* an entry as old as the TTL still served
IsFreshInclusive(age) == age <= CacheTTL

\* line 606: time.time() - cached_item["timestamp"] < self.cache_ttl
IsFresh(age) == age < CacheTTL

\* _get_cached_result at time t: the result if there is a fresh entry, and
\* the cache it leaves (an expired entry is deleted)
GetCachedResult(cache, key, t) ==
    IF key \in CacheKeys(cache)
    THEN LET i == IndexOf(cache, key)
         IN  IF IsFresh(t - cache[i].timestamp)
             THEN [hit |-> TRUE, result |-> cache[i].result, cache |-> cache]
             ELSE [hit |-> FALSE, result |-> NoResult, cache |-> Remove(cache, i)]
    ELSE [hit |-> FALSE, result |-> NoResult, cache |-> cache]

\* the entry inserted last
NewestIndex(cache) == Len(cache)

\* lines 624-627: min(keys, key=timestamp), the first of the minimal ones in
\* the dict's (insertion) order
OldestIndex(cache) ==
    CHOOSE i \in 1..Len(cache) :
        /\ \A j \in 1..Len(cache) : cache[i].timestamp <= cache[j].timestamp
        /\ \A j \in 1..(i - 1) : cache[j].timestamp > cache[i].timestamp

\* _cache_result at time t
CacheResult(cache, key, result, t) ==
    LET entry == [key |-> key, result |-> result, timestamp |-> t]
        put == IF key \in CacheKeys(cache)
               THEN [cache EXCEPT ![IndexOf(cache, key)] = entry]
               ELSE Append(cache, entry)
    IN  IF Len(put) > CacheCapacity
        THEN Remove(put, OldestIndex(put))
        ELSE put

\* ------------------------------------------------------- service returns
SearchOps == {"search_conversations", "search_messages"}

BuildOps == {"_build_conversations_query", "_build_messages_query"}

ServiceReturn(op, outcome, calls, key, result, built) ==
    [writer |-> "none", op |-> op, conversation_id |-> 0, outcome |-> outcome,
     message |-> NoMessage, conversation |-> NoConversation,
     value |-> FALSE, warned |-> FALSE,
     error |-> IF outcome = "raised" THEN "search_error" ELSE "none",
     calls |-> calls, key |-> key, result |-> result, built |-> built]

\* what an insert leaves in the observer: the entry of the watched key is
\* new, or it was present and is gone (evicted), or nothing happened to it
ObservedAfterInsert(before, after, key, result, t) ==
    IF observed.key = key
    THEN [key |-> key, searched |-> TRUE, cached_at |-> t, result |-> result,
          cleared |-> FALSE, evicted |-> FALSE]
    ELSE IF observed.key \in CacheKeys(before) \ CacheKeys(after)
    THEN [observed EXCEPT !.evicted = TRUE]
    ELSE observed

\* search_conversations / search_messages at the clock value now: the cache
\* lookup, and on a miss the store query (items is its answer when ok, and
\* it raises otherwise), the SearchResult and its insertion into the cache
Search(op, collection, q, items, ok) ==
    /\ LET key == GenerateCacheKey(collection, q)
           cached == GetCachedResult(query_cache, key, now)
           result == SearchResult(items)
       IN  IF cached.hit
           THEN /\ ret' = ServiceReturn(op, "returned", {}, key, cached.result, <<>>)
                /\ UNCHANGED <<query_cache, observed>>
           ELSE IF ~ok
           THEN /\ query_cache' = cached.cache
                /\ ret' = ServiceReturn(op, "raised", {"query_items"}, key, NoResult, <<>>)
                /\ UNCHANGED observed
           ELSE /\ query_cache' = CacheResult(cached.cache, key, result, now)
                /\ ret' = ServiceReturn(op, "returned", {"query_items"}, key, result, <<>>)
                /\ observed' = ObservedAfterInsert(cached.cache, query_cache',
                                                   key, result, now)
    /\ UNCHANGED <<tenant_id, conversations, messages, pc, frame, nextConvId,
                   nextMsgId, now, appended, inputs, objVars>>

SearchConversations(q, ok) ==
    Search("search_conversations", "conversations", q, QueryConversationItems(q), ok)

SearchMessages(q, ok) ==
    Search("search_messages", "messages", q, QueryMessageItems(q), ok)

\* clear_cache
ClearCache ==
    /\ query_cache' = <<>>
    /\ observed' = IF observed.searched
                   THEN [observed EXCEPT !.cleared = TRUE]
                   ELSE observed
    /\ ret' = ServiceReturn("clear_cache", "returned", {}, <<>>, NoResult, <<>>)
    /\ UNCHANGED <<tenant_id, conversations, messages, pc, frame, nextConvId,
                   nextMsgId, now, appended, inputs, objVars>>

\* ------------------------------------------------------- search_combined
\* what one search call does to a cache at the clock value t: its outcome,
\* its result, whether it queried the store, and the cache it leaves
\* (search_conversations / search_messages run as a task of search_combined)
SearchOutcome(cache, collection, q, items, ok, t) ==
    LET key == GenerateCacheKey(collection, q)
        cached == GetCachedResult(cache, key, t)
    IN  IF cached.hit
        THEN [outcome |-> "returned", result |-> cached.result,
              queried |-> FALSE, cache |-> cache]
        ELSE IF ~ok
        THEN [outcome |-> "raised", result |-> NoResult,
              queried |-> TRUE, cache |-> cached.cache]
        ELSE [outcome |-> "returned", result |-> SearchResult(items),
              queried |-> TRUE,
              cache |-> CacheResult(cached.cache, key, SearchResult(items), t)]

\* one failed branch emptying both results
BranchResultAllOrNothing(branch, other) ==
    IF branch.outcome = "raised" \/ other.outcome = "raised"
    THEN SearchResult({})
    ELSE branch.result

\* lines 468-474: a branch that raised is replaced by SearchResult(items=[]),
\* whatever the other branch did
BranchResult(branch, other) ==
    IF branch.outcome = "raised" THEN SearchResult({}) ELSE branch.result

\* search_combined: both searches are started as tasks and gathered with
\* return_exceptions; neither search suspends, so the conversation search
\* runs to its end before the message search starts, on the same cache
SearchCombined(q, okConversations, okMessages) ==
    /\ LET c == SearchOutcome(query_cache, "conversations", q,
                              QueryConversationItems(q), okConversations, now)
           m == SearchOutcome(c.cache, "messages", q,
                              QueryMessageItems(q), okMessages, now)
       IN  /\ query_cache' = m.cache
           /\ ret' = ("branches" :> <<[outcome |-> c.outcome, result |-> c.result],
                                       [outcome |-> m.outcome, result |-> m.result]>>)
                      @@ ServiceReturn("search_combined", "returned",
                                       (IF c.queried THEN {"query_conversations"} ELSE {})
                                       \cup (IF m.queried THEN {"query_messages"} ELSE {}),
                                       <<q>>,
                                       [conversations |-> BranchResult(c, m),
                                        messages |-> BranchResult(m, c)],
                                       <<>>)
    /\ UNCHANGED <<tenant_id, conversations, messages, pc, frame, nextConvId,
                   nextMsgId, now, appended, observed, inputs, objVars>>

\* ----------------------------------------------- compiling a pair of queries
CompileConversations ==
    /\ ret' = ServiceReturn("_build_conversations_query", "returned", {}, <<>>, NoResult,
                            <<BuildConversationsQuery(inputs[1]),
                              BuildConversationsQuery(inputs[2])>>)
    /\ UNCHANGED <<tenant_id, conversations, messages, pc, frame, nextConvId,
                   nextMsgId, now, appended, searchVars, objVars>>

CompileMessages ==
    /\ ret' = ServiceReturn("_build_messages_query", "returned", {}, <<>>, NoResult,
                            <<BuildMessagesQuery(inputs[1]),
                              BuildMessagesQuery(inputs[2])>>)
    /\ UNCHANGED <<tenant_id, conversations, messages, pc, frame, nextConvId,
                   nextMsgId, now, appended, searchVars, objVars>>

\* the SearchQuery objects the compilers are applied to
Strs == {"", "acme", "O'Brien"}

Lists == {<<>>, <<"acme">>, <<"O'Brien">>, <<"acme", "O'Brien">>, <<"O'Brien", "acme">>}

DateStrs == {"", "2024-01-01", "2024-06-30", "soon"}

SortFields == {"timestamp", "createdAt", "updatedAt", "messageCount", "relevance", "title"}

Queries ==
    {[DefaultQuery EXCEPT !.keyword = k, !.tenant_id = t,
                          !.include_archived = a, !.high_confidence_only = h] :
        k \in Strs, t \in Strs, a \in BOOLEAN, h \in BOOLEAN}
    \cup {[DefaultQuery EXCEPT !.participant_user_ids = l, !.participant_names = m] :
            l \in Lists, m \in Lists}
    \cup {[DefaultQuery EXCEPT !.category_ids = l, !.category_names = m] :
            l \in Lists, m \in Lists}
    \cup {[DefaultQuery EXCEPT !.tags = l, !.sender_roles = m] :
            l \in Lists, m \in Lists}
    \cup {[DefaultQuery EXCEPT !.date_range = DateRange(s, e)] :
            s \in DateStrs, e \in DateStrs}
    \cup {[DefaultQuery EXCEPT !.sort_field = f, !.sort_order = o, !.keyword = k] :
            f \in SortFields, o \in {"ascending", "descending"}, k \in {"acme", "O'Brien"}}

\* ======================================================== migration service
\* Local sessions carry the ids of the local history manager (the first 8
\* characters of a uuid), conversations the ids create_new draws (the first
\* 12 characters of another uuid): the two never coincide.
SessionIds == {3, 4}
DefaultUserId == "migrated_user"

\* a local session, by its id and the number of its messages
Session(id, n) == [id |-> id, messages |-> n]

LocalSessions ==
    {<<Session(3, 1)>>, <<Session(3, 0)>>, <<Session(4, 1)>>, <<Session(3, 1), Session(4, 1)>>}

\* DataMigrationService(local_manager, cosmos_manager): the sessions of the
\* local manager and the warnings of self.stats
NewMigration(sessions) == [sessions |-> sessions, warnings |-> <<>>]

NoMigration == NewMigration(<<>>)

\* the duplicate check of _migrate_session: get_conversation(session_id)
AlreadyMigrated(store, session, tenant) ==
    \E d \in store.conversations : d.id = session.id /\ d.tenantId = tenant

\* _migrate_session without dry_run on the containers and counters in store:
\* skip with a warning, or create_conversation, add_message for each local
\* message, and update_conversation with the object create_conversation
\* returned, which replaces what add_message wrote to the conversation
MigrateSession(store, session, tenant, ok, t) ==
    IF AlreadyMigrated(store, session, tenant)
    THEN [store EXCEPT !.warnings = Append(@, session.id)]
    ELSE IF ~ok
    THEN [store EXCEPT !.failed = @ + 1]
    ELSE LET created == ConversationFromCosmosDict(ConversationToCosmosDict(
                            ConversationCreateNew(tenant, store.nextConvId,
                                                  DefaultUserId, t)))
             m == MessageCreateNew(store.nextMsgId, created.conversation_id, tenant,
                                   DefaultUserId, 3, 1, t)
             added == session.messages > 0
         IN  [store EXCEPT
                  !.conversations = @ \cup {ConversationToCosmosDict(created)},
                  !.messages = IF added THEN @ \cup {MessageToCosmosDict(m)} ELSE @,
                  !.nextConvId = @ + 1,
                  !.nextMsgId = IF added THEN @ + 1 ELSE @]

RECURSIVE MigrateSessions(_, _, _, _, _)
\* the loop of migrate_all_data over list_sessions()
MigrateSessions(store, sessions, tenant, ok, t) ==
    IF sessions = <<>> THEN store
    ELSE MigrateSessions(MigrateSession(store, Head(sessions), tenant, ok, t),
                         Tail(sessions), tenant, ok, t)

\* migrate_all_data(dry_run) of the service bound to manager w
MigrateAllData(w, dry_run, ok) ==
    /\ pc[w] = "idle"
    /\ LET before == [conversations |-> conversations, messages |-> messages,
                      nextConvId |-> nextConvId, nextMsgId |-> nextMsgId,
                      warnings |-> migration.warnings, failed |-> 0]
           after == IF dry_run THEN before
                    ELSE MigrateSessions(before, migration.sessions, tenant_id[w], ok, now)
       IN  /\ after.nextConvId - 1 <= SetMax(ConvIds)
           /\ after.nextMsgId - 1 <= MaxMessages
           /\ conversations' = after.conversations
           /\ messages' = after.messages
           /\ nextConvId' = after.nextConvId
           /\ nextMsgId' = after.nextMsgId
           /\ appended' = [c \in DOMAIN appended |->
                              appended[c] + Cardinality({d \in after.messages \ messages :
                                                           d.conversationId = c})]
           /\ migration' = [migration EXCEPT !.warnings = after.warnings]
           /\ ret' = [NoReturn EXCEPT
                          !.writer = w, !.op = "migrate_all_data", !.outcome = "returned",
                          !.value = [dry_run |-> dry_run,
                                     failed_conversations |-> after.failed,
                                     warnings |-> after.warnings]]
    /\ UNCHANGED <<tenant_id, pc, frame, now, searchVars, chat_conversation, chat_message,
                   cosmos_client>>

\* ===================================================== store client set-up
\* CosmosDBClient.__init__ against a store account: which resources exist
\* there, which calls the constructor has made with what outcome, and the
\* object's fields.
ContainerNames == {<<"conversations", "messages">>, <<"chat", "chat">>}
Database == "database"

StoreCall(call, target, outcome) ==
    [call |-> call, target |-> target, outcome |-> outcome]

\* the outcome of an existence probe that the store answers
Probe(exists) == IF exists THEN "found" ELSE "not_found"

\* the except clause of a probe: CosmosResourceNotFoundError only
HandledByCreateAnyFailure(outcome) == outcome # "found"

HandledByCreate(outcome) == outcome = "not_found"

NewClient(valid, names, existing) ==
    [pc |-> "validate", valid |-> valid, names |-> names, next |-> 1,
     client |-> FALSE, database |-> "none", containers |-> {},
     calls |-> <<>>, store |-> existing]

ClientStep(c) ==
    /\ cosmos_client' = c
    /\ ret' = NoReturn
    /\ UNCHANGED <<tenant_id, conversations, messages, pc, frame, nextConvId,
                   nextMsgId, now, appended, searchVars, chat_conversation, chat_message,
                   migration>>

\* _initialize: configuration check, credential and client construction
Validate ==
    /\ cosmos_client.pc = "validate"
    /\ ClientStep([cosmos_client EXCEPT
                       !.pc = IF cosmos_client.valid THEN "client" ELSE "raised"])

CreateClient(ok) ==
    /\ cosmos_client.pc = "client"
    /\ ClientStep([cosmos_client EXCEPT !.pc = IF ok THEN "database" ELSE "raised",
                                        !.client = ok])

\* _initialize_database: get_database_client, read
InitializeDatabase(ok) ==
    /\ cosmos_client.pc = "database"
    /\ LET outcome == IF ok THEN Probe(Database \in cosmos_client.store) ELSE "error"
       IN  ClientStep([cosmos_client EXCEPT
                           !.calls = Append(@, StoreCall("read", Database, outcome)),
                           !.database = IF outcome = "found" THEN "resolved" ELSE "unread",
                           !.pc = CASE outcome = "found" -> "container"
                                    [] HandledByCreate(outcome) -> "create_database"
                                    [] OTHER -> "raised"])

\* _initialize_database: create_database in the not-found handler; creating
\* what exists by now is a conflict
CreateDatabase(ok) ==
    /\ cosmos_client.pc = "create_database"
    /\ LET created == ok /\ Database \notin cosmos_client.store
       IN  ClientStep([cosmos_client EXCEPT
                           !.calls = Append(@, StoreCall("create", Database,
                                                IF created THEN "created" ELSE "error")),
                           !.store = IF created THEN @ \cup {Database} ELSE @,
                           !.database = IF created THEN "resolved" ELSE @,
                           !.pc = IF created THEN "container" ELSE "raised"])

\* _create_or_get_container: get_container_client, read
ProbeContainer(ok) ==
    /\ cosmos_client.pc = "container"
    /\ LET name == cosmos_client.names[cosmos_client.next]
           outcome == IF ok THEN Probe(name \in cosmos_client.store) ELSE "error"
       IN  ClientStep([cosmos_client EXCEPT
                           !.calls = Append(@, StoreCall("read", name, outcome)),
                           !.containers = IF outcome = "found" THEN @ \cup {name} ELSE @,
                           !.next = IF outcome = "found" THEN @ + 1 ELSE @,
                           !.pc = CASE outcome = "found" ->
                                           IF cosmos_client.next = 2 THEN "constructed"
                                           ELSE "container"
                                    [] HandledByCreate(outcome) -> "create_container"
                                    [] OTHER -> "raised"])

\* _create_or_get_container: create_container in the not-found handler
CreateContainer(ok) ==
    /\ cosmos_client.pc = "create_container"
    /\ LET name == cosmos_client.names[cosmos_client.next]
           created == ok /\ name \notin cosmos_client.store
       IN  ClientStep([cosmos_client EXCEPT
                           !.calls = Append(@, StoreCall("create", name,
                                                IF created THEN "created" ELSE "error")),
                           !.store = IF created THEN @ \cup {name} ELSE @,
                           !.containers = IF created THEN @ \cup {name} ELSE @,
                           !.next = IF created THEN @ + 1 ELSE @,
                           !.pc = CASE ~created -> "raised"
                                    [] cosmos_client.next = 2 -> "constructed"
                                    [] OTHER -> "container"])

\* another process provisions a resource of the same account
ProvisionedElsewhere(resource) ==
    /\ cosmos_client.pc \notin {"constructed", "raised"}
    /\ resource \notin cosmos_client.store
    /\ resource = Database \/ Database \in cosmos_client.store
    /\ ClientStep([cosmos_client EXCEPT !.store = @ \cup {resource}])

\* is_ready()
IsReady(c) == c.client /\ c.database # "none" /\ Cardinality(c.containers) >= 2

\* ===================================================== in-memory objects
\* Text is a sequence of words; joining texts with a blank is concatenation
\* of their word sequences, and the empty string is the empty sequence.
Titles == {<<"Alpha">>, <<"a-b", "!!">>}
Summaries == {<<>>, <<"beta">>}
DisplayNames == {<<>>, <<"Alpha">>}
TagValues == {<<"beta">>, <<"a-b">>}
CategoryIds == {"c1"}
CategoryNames == {<<"Alpha">>, <<"!!">>}
MessageLens == {PreviewLimit, PreviewLimit + 1}
ReactionTypes == {"like", "dislike"}

\* str.lower(), every character outside \w, \s and kana/kanji replaced by a
\* blank, then split on white space
NormalizeWord(w) ==
    CASE w = "Alpha" -> <<"alpha">>
      [] w = "beta"  -> <<"beta">>
      [] w = "a-b"   -> <<"a", "b">>
      [] w = "!!"    -> <<>>
      [] OTHER       -> <<w>>

RECURSIVE NormalizeSearchText(_)
NormalizeSearchText(text) ==
    IF text = <<>> THEN <<>>
    ELSE NormalizeWord(Head(text)) \o NormalizeSearchText(Tail(text))

\* the parts update_searchable_text joins: title, summary, participant
\* display names, category names, tags
TextParts(c) ==
    c.title \o c.summary
    \o Concat([i \in 1..Len(c.participants) |-> c.participants[i].display_name])
    \o Concat([i \in 1..Len(c.categories) |-> c.categories[i].category_name])
    \o Concat(c.tags)

UpdateSearchableText(c) ==
    [c EXCEPT !.searchable_text = NormalizeSearchText(TextParts(c))]

HasParticipant(c, user_id) ==
    \E i \in 1..Len(c.participants) : c.participants[i].user_id = user_id

HasCategory(c, category_id) ==
    \E i \in 1..Len(c.categories) : c.categories[i].category_id = category_id

HasTag(c, tag) == \E i \in 1..Len(c.tags) : c.tags[i] = tag

ChatAddParticipantUnchecked(c, user_id, display_name) ==
    UpdateSearchableText(
        [c EXCEPT !.participants =
                      Append(@, [user_id |-> user_id, display_name |-> display_name]),
                  !.participant_count = Len(c.participants) + 1])

ChatAddParticipant(c, user_id, display_name) ==
    IF HasParticipant(c, user_id) THEN c
    ELSE UpdateSearchableText(
             [c EXCEPT !.participants =
                           Append(@, [user_id |-> user_id, display_name |-> display_name]),
                       !.participant_count = Len(c.participants) + 1])

ChatAddCategory(c, category_id, category_name) ==
    IF HasCategory(c, category_id) THEN c
    ELSE UpdateSearchableText(
             [c EXCEPT !.categories =
                           Append(@, [category_id |-> category_id,
                                      category_name |-> category_name])])

ChatAddTag(c, tag) ==
    IF HasTag(c, tag) THEN c
    ELSE UpdateSearchableText([c EXCEPT !.tags = Append(@, tag)])

ChatUpdateFromMessage(c, len, is_first, t) ==
    UpdateSearchableText(UpdateMessagePreview(c, len, is_first, t))

NoCategory == "none"

ChatConversationCreateNew(title, creator_user_id, creator_display_name, initial_category, t) ==
    LET new == [title |-> title,
                summary |-> <<>>,
                participants |-> <<[user_id |-> creator_user_id,
                                    display_name |->
                                        IF creator_display_name = <<>>
                                        THEN <<creator_user_id>>
                                        ELSE creator_display_name]>>,
                categories |-> <<>>,
                tags |-> <<>>,
                searchable_text |-> <<>>,
                participant_count |-> 0,
                first_message_preview |-> 0,
                last_message_preview |-> 0,
                last_message_at |-> t]
        categorised == IF initial_category = NoCategory THEN new
                       ELSE ChatAddCategory(new, initial_category, <<initial_category>>)
    IN  UpdateSearchableText(categorised)

\* a reaction list after add_reaction: the user's entry is updated in place,
\* or a new entry is appended
AddReactionAppending(reactions, user_id, reaction_type, t) ==
    Append(reactions, [user_id |-> user_id, type |-> reaction_type, timestamp |-> t])

AddReaction(reactions, user_id, reaction_type, t) ==
    LET reaction == [user_id |-> user_id, type |-> reaction_type, timestamp |-> t]
        existing == {i \in 1..Len(reactions) : reactions[i].user_id = user_id}
    IN  IF existing # {}
        THEN LET first == CHOOSE i \in existing : \A j \in existing : i <= j
             IN  [reactions EXCEPT ![first] = reaction]
        ELSE Append(reactions, reaction)

\* no object under inspection
ObjIdle ==
    /\ chat_conversation = ChatConversationCreateNew(<<>>, "u1", <<>>, NoCategory, 0)
    /\ chat_message = [reactions |-> <<>>]
    /\ cosmos_client = NewClient(TRUE, <<"conversations", "messages">>, {})
    /\ migration = NoMigration

ObjectReturn(op, args) == ServiceReturn(op, "returned", {}, args, NoResult, <<>>)

ObjectStep(op, args, c) ==
    /\ chat_conversation' = c
    /\ ret' = ObjectReturn(op, args)
    /\ UNCHANGED <<tenant_id, conversations, messages, pc, frame, nextConvId,
                   nextMsgId, now, appended, searchVars, chat_message, cosmos_client,
                   migration>>

AssignTitle(title) ==
    ObjectStep("title", <<title>>, [chat_conversation EXCEPT !.title = title])

AssignSummary(summary) ==
    ObjectStep("summary", <<summary>>, [chat_conversation EXCEPT !.summary = summary])

CallAddTag(tag) ==
    ObjectStep("add_tag", <<tag>>, ChatAddTag(chat_conversation, tag))

CallAddCategory(category_id, category_name) ==
    ObjectStep("add_category", <<category_id>>,
               ChatAddCategory(chat_conversation, category_id, category_name))

CallAddParticipant(user_id, display_name) ==
    ObjectStep("add_participant", <<user_id>>,
               ChatAddParticipant(chat_conversation, user_id, display_name))

CallUpdateFromMessage(len, is_first) ==
    ObjectStep("update_from_message", <<len>>,
               ChatUpdateFromMessage(chat_conversation, len, is_first, now))

CallAddReaction(user_id, reaction_type) ==
    /\ chat_message' = [chat_message EXCEPT
                            !.reactions = AddReaction(@, user_id, reaction_type, now)]
    /\ ret' = ObjectReturn("add_reaction", <<user_id, reaction_type>>)
    /\ UNCHANGED <<tenant_id, conversations, messages, pc, frame, nextConvId,
                   nextMsgId, now, appended, searchVars, chat_conversation,
                   cosmos_client, migration>>

\* ---------------------------------------------------------- specifications
vars == <<histVars, searchVars, objVars>>

\* two manager instances working on the same tenant
SameTenant == [w \in Writers |-> "tA"]

\* two manager instances bound to different tenants
OwnTenants == [w \in Writers |-> IF w = "w1" THEN "tA" ELSE "tB"]

\* the search service unused: empty cache, nothing to compile
SearchIdle ==
    /\ query_cache = <<>>
    /\ observed = NotSearched(<<>>)
    /\ inputs = <<DefaultQuery, DefaultQuery>>
    /\ ObjIdle

\* the steps that continue a call in progress; oks is the set of outcomes a
\* store call may have
Continue(oks) ==
    \/ \E w \in Writers, ok \in oks : AddMessageSequence(w, ok)
    \/ \E w \in Writers, ok \in oks : AddMessageCreate(w, ok)
    \/ \E w \in Writers, ok \in oks : AddMessageUpdate(w, ok)
    \/ \E w \in Writers, ok \in oks : DeleteConversationUpdate(w, ok)

\* Spec: independent manager instances of one tenant; their store calls
\* interleave, and every store call succeeds.
Init == HistInit(SameTenant) /\ SearchIdle

Next ==
    \/ \E w \in Writers, u \in Creators : CreateConversation(w, u, TRUE)
    \/ \E w \in Writers, c \in ConvIds, u \in Users, n \in ContentLens :
           AddMessageBegin(w, c, u, n, TRUE)
    \/ \E w \in Writers, c \in ConvIds : DeleteConversationBegin(w, c, TRUE)
    \/ \E w \in Writers, m \in MsgIds, c \in ConvIds : DeleteMessage(w, m, c, TRUE)
    \/ \E w \in Writers, m \in MsgIds, c \in ConvIds, n \in ContentLens :
           UpdateMessage(w, m, c, n, TRUE)
    \/ Continue({TRUE})

Spec == Init /\ [][Next]_vars

\* SeqSpec: one call at a time (no call begins while another is in progress),
\* by managers of two tenants; every store call succeeds.
SeqInit == HistInit(OwnTenants) /\ SearchIdle

SeqNext ==
    \/ AllIdle /\ \E w \in Writers, u \in Creators : CreateConversation(w, u, TRUE)
    \/ AllIdle /\ \E w \in Writers, c \in ConvIds, u \in Users, n \in ContentLens :
           AddMessageBegin(w, c, u, n, TRUE)
    \/ AllIdle /\ \E w \in Writers, c \in ConvIds : DeleteConversationBegin(w, c, TRUE)
    \/ AllIdle /\ \E w \in Writers, m \in MsgIds, c \in ConvIds :
           DeleteMessage(w, m, c, TRUE)
    \/ AllIdle /\ \E w \in Writers, m \in MsgIds, c \in ConvIds, n \in ContentLens :
           UpdateMessage(w, m, c, n, TRUE)
    \/ Continue({TRUE})

SeqSpec == SeqInit /\ [][SeqNext]_vars

\* AppendSpec: sequential create_conversation and add_message calls only, no
\* deletes or updates, every store call succeeds.
AppendNext ==
    \/ AllIdle /\ \E w \in Writers, u \in Creators : CreateConversation(w, u, TRUE)
    \/ AllIdle /\ \E w \in Writers, c \in ConvIds, u \in Users, n \in ContentLens :
           AddMessageBegin(w, c, u, n, TRUE)
    \/ \E w \in Writers : AddMessageSequence(w, TRUE)
    \/ \E w \in Writers : AddMessageCreate(w, TRUE)
    \/ \E w \in Writers : AddMessageUpdate(w, TRUE)

AppendSpec == SeqInit /\ [][AppendNext]_vars

\* ClockSpec: the sequential appends of AppendSpec while the clock advances
\* between the steps of a call
ClockNext ==
    \/ AppendNext
    \/ Tick

ClockSpec == SeqInit /\ [][ClockNext]_vars

\* EditSpec: sequential appends, then update_message with any object the
\* caller holds
EditNext ==
    \/ AppendNext
    \/ AllIdle /\ \E w \in Writers, m \in EditedMessages, ok \in BOOLEAN :
           UpdateMessageObject(w, m, ok)

EditSpec == SeqInit /\ [][EditNext]_vars

\* RaceSpec: two manager instances of one tenant creating conversations and
\* appending messages, their store calls interleaving; every call succeeds
RaceNext ==
    \/ \E w \in Writers, u \in Creators : CreateConversation(w, u, TRUE)
    \/ \E w \in Writers, c \in ConvIds, u \in Users, n \in ContentLens :
           AddMessageBegin(w, c, u, n, TRUE)
    \/ \E w \in Writers : AddMessageSequence(w, TRUE)
    \/ \E w \in Writers : AddMessageCreate(w, TRUE)
    \/ \E w \in Writers : AddMessageUpdate(w, TRUE)

RaceSpec == Init /\ [][RaceNext]_vars

\* LoopSpec: add_message coroutines of one manager on one event loop (the
\* writers are the coroutines of asyncio.gather).  A coroutine gives control
\* to the loop only at an await that suspends; the store calls of add_message
\* are calls of the synchronous client and the awaits are of coroutines of
\* the manager that never suspend, so no position of the call is one.
SuspensionPoints == {}

\* the event loop runs w: every other coroutine has not begun, has finished or
\* is suspended
MayRun(w) ==
    \A v \in Writers \ {w} : pc[v] = "idle" \/ pc[v] \in SuspensionPoints

LoopNext ==
    \/ \E w \in Writers, u \in Creators : MayRun(w) /\ CreateConversation(w, u, TRUE)
    \/ \E w \in Writers, c \in ConvIds, u \in Users, n \in ContentLens :
           MayRun(w) /\ AddMessageBegin(w, c, u, n, TRUE)
    \/ \E w \in Writers : MayRun(w) /\ AddMessageSequence(w, TRUE)
    \/ \E w \in Writers : MayRun(w) /\ AddMessageCreate(w, TRUE)
    \/ \E w \in Writers : MayRun(w) /\ AddMessageUpdate(w, TRUE)

LoopSpec == Init /\ [][LoopNext]_vars

\* StatsSpec: the sequential calls of SeqSpec and get_tenant_stats
StatsNext ==
    \/ SeqNext
    \/ AllIdle /\ \E w \in Writers : GetTenantStats(w)

StatsSpec == SeqInit /\ [][StatsNext]_vars

\* FaultSpec: sequential create_conversation and add_message calls whose
\* store calls may fail.
FaultNext ==
    \/ AllIdle /\ \E w \in Writers, u \in Creators, ok \in BOOLEAN :
           CreateConversation(w, u, ok)
    \/ AllIdle /\ \E w \in Writers, c \in ConvIds, u \in Users, n \in ContentLens,
                     ok \in BOOLEAN : AddMessageBegin(w, c, u, n, ok)
    \/ \E w \in Writers, ok \in BOOLEAN : AddMessageSequence(w, ok)
    \/ \E w \in Writers, ok \in BOOLEAN : AddMessageCreate(w, ok)
    \/ \E w \in Writers, ok \in BOOLEAN : AddMessageUpdate(w, ok)

FaultSpec == SeqInit /\ [][FaultNext]_vars

\* SequenceFaultSpec: sequential create_conversation and add_message calls with
\* contents of two lengths, in which the max-sequence query may raise and
\* every other store call succeeds
FaultContentLens == {3, 4}

SequenceFaultNext ==
    \/ AllIdle /\ \E w \in Writers, u \in Creators : CreateConversation(w, u, TRUE)
    \/ AllIdle /\ \E w \in Writers, c \in ConvIds, u \in Users, n \in FaultContentLens :
           AddMessageBegin(w, c, u, n, TRUE)
    \/ \E w \in Writers, ok \in BOOLEAN : AddMessageSequence(w, ok)
    \/ \E w \in Writers : AddMessageCreate(w, TRUE)
    \/ \E w \in Writers : AddMessageUpdate(w, TRUE)

SequenceFaultSpec == SeqInit /\ [][SequenceFaultNext]_vars

\* CacheSpec: one search service over the containers; a manager creates
\* conversations between searches, store queries may raise, the cache is
\* cleared at will and the clock advances.
CacheInit ==
    /\ HistInit(OwnTenants)
    /\ query_cache = <<>>
    /\ observed \in {NotSearched(k) : k \in Keys}
    /\ inputs = <<DefaultQuery, DefaultQuery>>
    /\ ObjIdle

CacheNext ==
    \/ \E u \in Creators : CreateConversation("w1", u, TRUE)
    \/ \E q \in CacheQueries, ok \in BOOLEAN : SearchConversations(q, ok)
    \/ \E q \in CacheQueries, ok \in BOOLEAN : SearchMessages(q, ok)
    \/ ClearCache
    \/ Tick

CacheSpec == CacheInit /\ [][CacheNext]_vars

\* WriteCacheSpec: a manager's calls on one conversation (one at a time)
\* between the searches of a search service over the same containers, while
\* the clock advances
\* the query of the manager's tenant without any other filter
OwnQuery == [DefaultQuery EXCEPT !.tenant_id = "tA"]

WriteCacheNext ==
    \/ AllIdle /\ conversations = {}
               /\ \E u \in Creators : CreateConversation("w1", u, TRUE)
    \/ AllIdle /\ \E u \in Creators, n \in ContentLens :
           AddMessageBegin("w1", 1, u, n, TRUE)
    \/ AllIdle /\ DeleteConversationBegin("w1", 1, TRUE)
    \/ AllIdle /\ \E m \in MsgIds : DeleteMessage("w1", m, 1, TRUE)
    \/ AllIdle /\ \E m \in MsgIds, n \in ContentLens : UpdateMessage("w1", m, 1, n, TRUE)
    \/ Continue({TRUE})
    \/ AllIdle /\ SearchConversations(OwnQuery, TRUE)
    \/ AllIdle /\ SearchMessages(OwnQuery, TRUE)
    \/ AllIdle /\ Tick

WriteCacheSpec == SeqInit /\ [][WriteCacheNext]_vars

\* CombinedSpec: combined searches over containers that managers fill one
\* call at a time; store queries may raise and the cache is cleared at will.
CombinedNext ==
    \/ AllIdle /\ \E u \in Creators : CreateConversation("w1", u, TRUE)
    \/ AllIdle /\ \E u \in Creators, n \in ContentLens :
           AddMessageBegin("w1", 1, u, n, TRUE)
    \/ AddMessageSequence("w1", TRUE)
    \/ AddMessageCreate("w1", TRUE)
    \/ AddMessageUpdate("w1", TRUE)
    \/ AllIdle /\ \E q \in CacheQueries, okc \in BOOLEAN, okm \in BOOLEAN :
           SearchCombined(q, okc, okm)
    \/ AllIdle /\ ClearCache

CombinedSpec == SeqInit /\ [][CombinedNext]_vars

\* ObjSpec: one ChatConversation object, built by create_new, whose title and
\* summary are assigned and whose mutators are called in any order
SearchUnused ==
    /\ query_cache = <<>>
    /\ observed = NotSearched(<<>>)
    /\ inputs = <<DefaultQuery, DefaultQuery>>

ObjInit ==
    /\ HistInit(OwnTenants)
    /\ SearchUnused
    /\ chat_conversation \in
           {ChatConversationCreateNew(title, u, name, category, 0) :
                title \in Titles, u \in Creators, name \in DisplayNames,
                category \in {NoCategory} \cup CategoryIds}
    /\ chat_message = [reactions |-> <<>>]
    /\ cosmos_client = NewClient(TRUE, <<"conversations", "messages">>, {})
    /\ migration = NoMigration

ObjNext ==
    \/ \E title \in Titles : AssignTitle(title)
    \/ \E summary \in Summaries : AssignSummary(summary)
    \/ \E tag \in TagValues : CallAddTag(tag)
    \/ \E id \in CategoryIds, name \in CategoryNames : CallAddCategory(id, name)
    \/ \E u \in Users, name \in DisplayNames : CallAddParticipant(u, name)
    \/ \E len \in MessageLens, is_first \in BOOLEAN : CallUpdateFromMessage(len, is_first)

ObjSpec == ObjInit /\ [][ObjNext]_vars

\* ReactionSpec: one ChatMessage object, new, to which reactions are added
\* while the clock advances
ReactionInit == HistInit(OwnTenants) /\ SearchIdle

ReactionNext ==
    \/ \E u \in Users, type \in ReactionTypes : CallAddReaction(u, type)
    \/ Tick

ReactionSpec == ReactionInit /\ [][ReactionNext]_vars

\* ProvisionSpec: one CosmosDBClient constructed against an account in which
\* the database and the containers may or may not exist, whose calls may
\* fail, and which another process may be provisioning at the same time
ExistingStores(names) ==
    {{}} \cup {{Database} \cup held : held \in SUBSET {names[1], names[2]}}

ProvisionInit ==
    /\ HistInit(OwnTenants)
    /\ SearchUnused
    /\ chat_conversation = ChatConversationCreateNew(<<>>, "u1", <<>>, NoCategory, 0)
    /\ chat_message = [reactions |-> <<>>]
    /\ cosmos_client \in {NewClient(valid, names, existing) :
                              valid \in BOOLEAN, names \in ContainerNames,
                              existing \in ExistingStores(<<"conversations", "messages">>)
                                            \cup ExistingStores(<<"chat", "chat">>)}
    /\ migration = NoMigration

ProvisionNext ==
    \/ Validate
    \/ \E ok \in BOOLEAN : CreateClient(ok)
    \/ \E ok \in BOOLEAN : InitializeDatabase(ok)
    \/ \E ok \in BOOLEAN : CreateDatabase(ok)
    \/ \E ok \in BOOLEAN : ProbeContainer(ok)
    \/ \E ok \in BOOLEAN : CreateContainer(ok)
    \/ \E resource \in {Database, "conversations", "messages", "chat"} :
           ProvisionedElsewhere(resource)

ProvisionSpec == ProvisionInit /\ [][ProvisionNext]_vars

\* MigrateSpec: migration services of two tenants over one set of local
\* sessions, run any number of times, with and without dry_run, with store
\* failures, while the clock advances
MigrateInit ==
    /\ HistInit(OwnTenants)
    /\ SearchUnused
    /\ chat_conversation = ChatConversationCreateNew(<<>>, "u1", <<>>, NoCategory, 0)
    /\ chat_message = [reactions |-> <<>>]
    /\ cosmos_client = NewClient(TRUE, <<"conversations", "messages">>, {})
    /\ migration \in {NewMigration(sessions) : sessions \in LocalSessions}

MigrateNext ==
    \/ \E w \in Writers, dry_run \in BOOLEAN, ok \in BOOLEAN : MigrateAllData(w, dry_run, ok)
    \/ Tick

MigrateSpec == MigrateInit /\ [][MigrateNext]_vars

\* QuerySpec: both compilers applied to every pair of SearchQuery objects
QueryInit ==
    /\ HistInit(OwnTenants)
    /\ query_cache = <<>>
    /\ observed = NotSearched(<<>>)
    /\ inputs \in Queries \X Queries
    /\ ObjIdle

QueryNext ==
    \/ CompileConversations
    \/ CompileMessages

QuerySpec == QueryInit /\ [][QueryNext]_vars


\* ================================================================= claims
StoredIn(cid) == {d \in messages : d.conversationId = cid}

AddMessageReturned ==
    ret.op = "add_message" /\ ret.outcome = "returned"

\* C1 -- Sequencing: after N sequential successful add_message calls on a
\* conversation (no delete or update in between, every store call
\* succeeding), the k-th call returns a message whose sequence number is k.
Sequencing ==
    AddMessageReturned =>
        ret.message.sequence_number = appended[ret.conversation_id]

\* C2 -- Sequence-number uniqueness: no two stored messages of one
\* conversation carry the same sequence number, whatever the interleaving of
\* add_message calls of independent writers.
SequenceNumbersUnique ==
    \A d1, d2 \in messages :
        (d1.conversationId = d2.conversationId
         /\ d1.sequence_number = d2.sequence_number) => d1 = d2

\* C3 -- Message count after appends: once N sequential successful
\* add_message calls on a freshly created conversation have returned,
\* get_conversation(id).metrics.message_count is N and
\* get_conversation_messages(id) returns exactly N messages.
MessageCountAfterAppends ==
    AllIdle =>
        \A d \in conversations :
            /\ GetConversation(d.id, d.tenantId).message_count = appended[d.id]
            /\ Cardinality(GetConversationMessages(d.id)) = appended[d.id]

MessageCountAfterAppendsWitness ==
    /\ AllIdle
    /\ \E d \in conversations :
           appended[d.id] = 2 /\ GetConversation(d.id, d.tenantId).message_count = 2

\* C4 -- add_message on a conversation id that does not exist in the
\* manager's tenant raises conversation-not-found in the step that read the
\* conversation: the only store call is that read, no sequence query is
\* issued, no message is created, and both containers are unchanged.
AddMessageCalled(w, c) ==
    /\ pc[w] = "idle"
    /\ \/ pc'[w] = "am_sequence" /\ frame'[w].conversation_id = c
       \/ ret'.writer = w /\ ret'.op = "add_message" /\ ret'.conversation_id = c

AddMessageNotFoundFailsFast ==
    [][\A w \in Writers, c \in ConvIds :
         (AddMessageCalled(w, c) /\ GetConversation(c, tenant_id[w]) = NoConversation)
         => /\ pc'[w] = "idle"
            /\ ret'.writer = w
            /\ ret'.outcome = "raised"
            /\ ret'.error = "conversation_not_found"
            /\ ret'.calls = {"read_conversation"}
            /\ conversations' = conversations
            /\ messages' = messages]_vars

\* the conversation exists, but in another tenant's partition
AddMessageNotFoundWitness ==
    /\ ret.op = "add_message"
    /\ ret.error = "conversation_not_found"
    /\ \E d \in conversations : d.id = ret.conversation_id

\* C5 -- Message durability over metric accuracy: when the conversation
\* update that follows the message write fails, add_message still returns
\* the created message (it never raises after the message write), the message
\* stays stored, and the stored conversation is as it was read before the call.
DurabilityOverMetrics ==
    [][\A w \in Writers, c \in ConvIds, t \in Tenants :
         (pc[w] = "am_update" /\ pc'[w] # "am_update"
          /\ c = frame[w].conversation_id /\ t = tenant_id[w])
         => /\ ret'.writer = w
            /\ ret'.outcome = "returned"
            /\ ret'.message = frame[w].message
            /\ MessageToCosmosDict(frame[w].message) \in messages'
            /\ ret'.warned => GetConversation(c, t)' = frame[w].conversation]_vars

DurabilityOverMetricsWitness ==
    /\ AddMessageReturned
    /\ ret.warned
    /\ MessageToCosmosDict(ret.message) \in messages
    /\ GetConversation(ret.conversation_id, tenant_id[ret.writer]).message_count
           < appended[ret.conversation_id]

\* C6 -- Soft versus hard delete: when delete_conversation returns true the
\* conversation is still returned by get_conversation, with status deleted
\* and archived true; when delete_message returns true get_message returns
\* absent and get_conversation_messages no longer lists the message, and a
\* message that is gone never comes back.
DeleteConversationKeeps ==
    (ret.op = "delete_conversation" /\ ret.outcome = "returned" /\ ret.value)
    => LET c == GetConversation(ret.conversation_id, tenant_id[ret.writer])
       IN  c # NoConversation /\ c.status = "deleted" /\ c.archived

DeleteMessageRemoves ==
    (ret.op = "delete_message" /\ ret.outcome = "returned" /\ ret.value)
    => /\ GetMessage(ret.message.id, ret.conversation_id) = NoMessage
       /\ \A m \in GetConversationMessages(ret.conversation_id) :
              m.id # ret.message.id

DeletedStaysAbsent ==
    \A mid \in MsgIds, cid \in ConvIds :
        (mid < nextMsgId /\ GetMessage(mid, cid) = NoMessage)
        => GetMessage(mid, cid)' = NoMessage

SoftVersusHardDelete ==
    [][DeleteConversationKeeps' /\ DeleteMessageRemoves' /\ DeletedStaysAbsent]_vars

\* a message was hard-deleted while a soft-deleted conversation is still stored
SoftVersusHardDeleteWitness ==
    /\ ret.op = "delete_message" /\ ret.outcome = "returned" /\ ret.value
    /\ \E d \in conversations :
           /\ d.status = "deleted" /\ d.archived
           /\ d.id = ret.conversation_id
           /\ GetConversation(d.id, d.tenantId) # NoConversation

\* C7 -- Message-count invariant under deletion: after sequential successful
\* add_message and delete_message calls, once no call is in progress, the
\* stored metrics.message_count equals the number of stored messages of the
\* conversation.
MessageCountMatchesStored ==
    AllIdle =>
        \A d \in conversations :
            GetConversation(d.id, d.tenantId).message_count
                = Cardinality(StoredIn(d.id))

\* C8 -- Cache correctness: for either collection and any query whose search
\* queried the store and cached its result at time t, a later search with the
\* identical query at time t2 issues no store query and returns that first
\* result when t2 - t is below the TTL and neither clear_cache nor a capacity
\* eviction of the entry happened in between; when t2 - t has reached the TTL,
\* or clear_cache was called in between, it issues a fresh store query.
CacheCorrectness ==
    [][(ret'.op \in SearchOps /\ ret'.key = observed.key /\ observed.searched)
         => LET o == observed
                age == now - o.cached_at
            IN  /\ (age < CacheTTL /\ ~o.cleared /\ ~o.evicted)
                   => /\ ret'.calls = {}
                      /\ ret'.outcome = "returned"
                      /\ ret'.result = o.result
                /\ (age >= CacheTTL \/ o.cleared)
                   => "query_items" \in ret'.calls]_vars

\* a search served from the cache although the store would answer differently
CacheCorrectnessWitness ==
    /\ ret.op = "search_conversations"
    /\ ret.outcome = "returned"
    /\ ret.calls = {}
    /\ ret.result.items # QueryConversationItems(ret.key[2])
    /\ ret.key = observed.key
    /\ now - observed.cached_at = CacheTTL - 1

\* C9 -- Cache bound and eviction order: after every search call the cache
\* holds at most CacheCapacity entries; when an insert takes it past the
\* capacity exactly one entry is removed, one whose insertion timestamp is
\* the oldest among those present, and otherwise no entry is removed.
CacheBoundAndEviction ==
    [][/\ Len(query_cache') <= CacheCapacity
       /\ \A k \in Keys :
            (ret'.op \in SearchOps /\ ret'.key = k /\ ret'.outcome = "returned"
             /\ "query_items" \in ret'.calls)
            => LET Entries(cache) == {cache[i] : i \in 1..Len(cache)}
                   present == {e \in Entries(query_cache) : e.key # k}
                                \cup {[key |-> k, result |-> ret'.result,
                                       timestamp |-> now]}
                   after == Entries(query_cache')
               IN  IF Cardinality(present) > CacheCapacity
                   THEN \E e \in present :
                            /\ after = present \ {e}
                            /\ \A f \in present : e.timestamp <= f.timestamp
                   ELSE after = present]_vars

\* an insert has just evicted the entry of another key
CacheBoundAndEvictionWitness ==
    /\ ret.op \in SearchOps
    /\ "query_items" \in ret.calls
    /\ Len(query_cache) = CacheCapacity
    /\ ret.key \in CacheKeys(query_cache)
    /\ observed.evicted /\ ~observed.cleared
    /\ observed.key \notin CacheKeys(query_cache)

\* C10 -- Query safety
Built == ret.op \in BuildOps

Range(s) == {s[i] : i \in 1..Len(s)}

\* the filter values a query carries
FilterValues(q) ==
    ({q.keyword, q.tenant_id, q.date_range.start_date, q.date_range.end_date}
     \cup Range(q.participant_user_ids) \cup Range(q.participant_names)
     \cup Range(q.category_ids) \cup Range(q.category_names)
     \cup Range(q.tags) \cup Range(q.sender_roles)) \ {""}

\* no piece of the text is a filter value; the parameter values are filter
\* values (the keyword lowercased)
ValuesOnlyInParameters(q, b) ==
    /\ \A i \in 1..Len(b.sql_query) :
           b.sql_query[i].s \notin (FilterValues(q) \cup {Lower(q.keyword)}) \ {""}
    /\ \A i \in 1..Len(b.parameters) :
           b.parameters[i].value \in FilterValues(q) \cup {Lower(q.keyword)}

\* which fields a query populates, the lengths of its lists, its sort, flags
Shape(q) ==
    [keyword |-> q.keyword # "", tenant_id |-> q.tenant_id # "",
     participant_user_ids |-> Len(q.participant_user_ids),
     participant_names |-> Len(q.participant_names),
     category_ids |-> Len(q.category_ids),
     category_names |-> Len(q.category_names),
     tags |-> Len(q.tags), sender_roles |-> Len(q.sender_roles),
     start_date |-> q.date_range.start_date # "",
     end_date |-> q.date_range.end_date # "",
     sort_field |-> q.sort_field, sort_order |-> q.sort_order,
     include_archived |-> q.include_archived,
     high_confidence_only |-> q.high_confidence_only]

\* C10 as stated: in both compilers the query text never contains a filter
\* value, every value appears only in the parameter list; equivalently, two
\* queries that populate the same fields with lists of the same lengths and
\* have the same sort and flags compile to the identical text.
QuerySafetyAsStated ==
    Built =>
        /\ \A i \in {1, 2} : ValuesOnlyInParameters(inputs[i], ret.built[i])
        /\ Shape(inputs[1]) = Shape(inputs[2])
           => ret.built[1].sql_query = ret.built[2].sql_query

\* C10 -- Query safety, amended: the query text never contains a filter
\* value, and two queries that populate the same fields with lists of the
\* same lengths, have the same sort and flags, and agree on whether their
\* date range is valid compile to the identical text.
QuerySafety ==
    Built =>
        /\ \A i \in {1, 2} : ValuesOnlyInParameters(inputs[i], ret.built[i])
        /\ (/\ Shape(inputs[1]) = Shape(inputs[2])
            /\ DateRangeIsValid(inputs[1].date_range)
                 = DateRangeIsValid(inputs[2].date_range))
           => ret.built[1].sql_query = ret.built[2].sql_query

\* two queries of one shape with different keywords and tenants compile to
\* one text and different parameter lists
QuerySafetyWitness ==
    /\ ret.op = "_build_conversations_query"
    /\ Shape(inputs[1]) = Shape(inputs[2])
    /\ inputs[1].keyword # "" /\ inputs[1].tenant_id # ""
    /\ inputs[1].keyword # inputs[2].keyword
    /\ ret.built[1].sql_query = ret.built[2].sql_query
    /\ ret.built[1].parameters # ret.built[2].parameters


\* C11 -- Combined-search failure isolation: search_combined never raises and
\* always returns a conversations result and a messages result; both
\* branches are always run; a branch that raised contributes an empty result
\* while the other branch's result is exactly what its own search produced
\* (for the conversation search, which runs first: the fresh cache entry, or
\* else the answer of the store).
CombinedSearchIsolation ==
    [][ret'.op = "search_combined"
       => LET q == ret'.key[1]
              cached == GetCachedResult(query_cache,
                                        GenerateCacheKey("conversations", q), now)
              c == ret'.branches[1]
              m == ret'.branches[2]
          IN  /\ ret'.outcome = "returned"
              /\ c.outcome \in {"returned", "raised"}
              /\ m.outcome \in {"returned", "raised"}
              /\ c.outcome = "returned"
                 => /\ ret'.result.conversations = c.result
                    /\ c.result = IF cached.hit THEN cached.result
                                  ELSE SearchResult(QueryConversationItems(q))
              /\ m.outcome = "returned" => ret'.result.messages = m.result
              /\ c.outcome = "raised" => ret'.result.conversations.items = {}
              /\ m.outcome = "raised" => ret'.result.messages.items = {}]_vars

\* the conversation search raised and the message search found messages
CombinedSearchIsolationWitness ==
    /\ ret.op = "search_combined"
    /\ ret.branches[1].outcome = "raised"
    /\ ret.result.conversations.items = {}
    /\ ret.branches[2].outcome = "returned"
    /\ ret.result.messages.items # {}
    /\ ret.result.messages.items = QueryMessageItems(ret.key[1])

\* ---- C12
\* Searchable-text freshness: in every state in which add_tag, add_category,
\* add_participant or update_from_message has just returned, whatever its
\* argument and whatever was assigned to title or summary before the call,
\* searchable_text is the normalisation of the current title, summary,
\* participant names, category names and tags.
Mutators == {"add_tag", "add_category", "add_participant", "update_from_message"}

SearchableTextFreshness ==
    (ret # NoReturn /\ ret.op \in Mutators)
        => chat_conversation.searchable_text
               = NormalizeSearchText(TextParts(chat_conversation))

\* ---- C13
\* One reaction per user: every add_reaction call leaves at most one entry
\* for each user id in the list, the caller's entry carries the type of this
\* call, every other user's entry is the one it was, and a call for a user
\* who already has an entry does not lengthen the list.
ReactionsBy(reactions, user_id) ==
    {i \in 1..Len(reactions) : reactions[i].user_id = user_id}

OneReactionPerUser ==
    [][ret'.op = "add_reaction" =>
          LET before == chat_message.reactions
              after == chat_message'.reactions
              user_id == ret'.key[1]
          IN  /\ \A u \in Users : Cardinality(ReactionsBy(after, u)) <= 1
              /\ \E i \in ReactionsBy(after, user_id) : after[i].type = ret'.key[2]
              /\ \A u \in Users \ {user_id} :
                     {before[i] : i \in ReactionsBy(before, u)}
                         = {after[i] : i \in ReactionsBy(after, u)}
              /\ ReactionsBy(before, user_id) # {} => Len(after) = Len(before)
      ]_vars

\* a user's entry was replaced after the other user's entry had been appended
OneReactionPerUserWitness ==
    /\ ret.op = "add_reaction"
    /\ Len(chat_message.reactions) = 2
    /\ chat_message.reactions[1].timestamp > chat_message.reactions[2].timestamp
    /\ chat_message.reactions[1].user_id = ret.key[1]

\* ---- C14
\* Deduplication: a conversation built by create_new and changed by add_tag,
\* add_category and add_participant never holds a tag, a category id or a
\* participant user id twice, and a call whose key is already present leaves
\* the collection as it was.
NoDuplicates(keys) ==
    \A i, j \in 1..Len(keys) : keys[i] = keys[j] => i = j

UserIdsOf(c) == [i \in 1..Len(c.participants) |-> c.participants[i].user_id]

CategoryIdsOf(c) == [i \in 1..Len(c.categories) |-> c.categories[i].category_id]

Deduplication ==
    [][LET before == chat_conversation
           after == chat_conversation'
       IN  /\ NoDuplicates(after.tags)
           /\ NoDuplicates(CategoryIdsOf(after))
           /\ NoDuplicates(UserIdsOf(after))
           /\ (ret'.op = "add_tag" /\ HasTag(before, ret'.key[1]))
                  => after.tags = before.tags
           /\ (ret'.op = "add_category" /\ HasCategory(before, ret'.key[1]))
                  => after.categories = before.categories
           /\ (ret'.op = "add_participant" /\ HasParticipant(before, ret'.key[1]))
                  => after.participants = before.participants
      ]_vars

\* the creator, already a participant, has just been added again and kept
\* the display name create_new gave, with both tags and the category in place
DeduplicationWitness ==
    /\ ret.op = "add_participant"
    /\ ret.key[1] \in Creators
    /\ Len(chat_conversation.participants) = 2
    /\ chat_conversation.participants[1].display_name = <<"u1">>
    /\ Len(chat_conversation.tags) = 2
    /\ Len(chat_conversation.categories) = 1

\* ---- C18
\* Preview length: once update_from_message has returned, whatever the length
\* of the message content, first_message_preview and last_message_preview are
\* each at most 100 characters long.
PreviewLength ==
    (ret # NoReturn /\ ret.op = "update_from_message")
        => /\ chat_conversation.first_message_preview <= PreviewLimit
           /\ chat_conversation.last_message_preview <= PreviewLimit

\* ---- C16
\* Provisioning: every create call follows directly the existence probe of
\* the same resource that reported not-found; a resource whose probe found
\* it is never created; a failed probe or create is the constructor's last
\* store call and the constructor raises; and a constructed client whose
\* is_ready() is true has its client, its database and both containers
\* resolved.
CallsOf(c, call, outcome) ==
    {i \in 1..Len(c.calls) : c.calls[i].call = call /\ c.calls[i].outcome = outcome}

LastActivityTime ==
    AddMessageReturned =>
        \A d \in conversations :
            d.id = ret.message.conversation_id
                => d.last_message_at = ret.message.timestamp

\* ---- C17
\* Monotonic allocation: over sequential add_message and delete_message calls
\* on one conversation, the number given to a message by add_message is
\* strictly greater than every number given earlier in that conversation; the
\* other messages stored in the conversation all got theirs earlier.
MonotonicAllocation ==
    AddMessageReturned =>
        \A d \in StoredIn(ret.message.conversation_id) :
            d.id # ret.message.id
                => d.sequence_number < ret.message.sequence_number

\* ---- C20
\* Sequence-number immutability: no step of a History Manager operation
\* changes the sequence number of a message that is stored before and after
\* it; whatever object update_message is given, the stored number stays the
\* one add_message assigned.
SequenceNumberImmutability ==
    [][\A d \in messages, e \in messages' :
           (d.id = e.id /\ d.conversationId = e.conversationId)
               => e.sequence_number = d.sequence_number]_vars

\* ---- C19
\* Lost metric update: the replace that ends an add_message call stores the
\* message count the writer read at the start of its call plus one, whatever
\* another writer has stored in between; so when two writers both read the
\* conversation before either writes it back, both messages are stored and
\* the count has grown by only 1.
LostMetricUpdate ==
    AddMessageReturned =>
        \A d \in conversations :
            d.id = ret.conversation_id
                => d.message_count = ret.conversation.message_count + 1

\* both writers' calls on one conversation have returned, both messages are
\* stored, and the stored count is 1
LostMetricUpdateWitness ==
    /\ AllIdle
    /\ AddMessageReturned
    /\ \E d \in conversations :
           /\ d.id = ret.conversation_id
           /\ appended[d.id] = 2
           /\ Cardinality(StoredIn(d.id)) = 2
           /\ ret.conversation.message_count = 0
           /\ d.message_count = 1

\* ---- C21
\* Filter completeness in both compilers: for every populated filter field of
\* a SearchQuery (tenant id, keyword, participant ids, participant names,
\* category ids, category names, tags, the bounds of a valid date range; and
\* sender roles for messages) the compiled query of either compiler holds one
\* top-level AND-ed predicate, a list-valued field giving one uniquely named
\* parameter per value.  The archived and high-confidence flags of the
\* conversation compiler add a predicate without parameter each.
ListFields(op) ==
    {"participant_user_ids", "participant_names", "category_ids", "category_names", "tags"}
        \cup (IF op = "_build_messages_query" THEN {"sender_roles"} ELSE {})

ScalarPredicates(q) ==
    LET valid == q.date_range.present /\ DateRangeIsValid(q.date_range)
    IN  Cardinality({f \in {"tenant_id", "keyword"} : q[f] # ""})
        + Cardinality({f \in {"start_date", "end_date"} : valid /\ q.date_range[f] # ""})

FlagPredicates(q, op) ==
    IF op = "_build_conversations_query"
    THEN Cardinality({f \in {"include_archived"} : ~q[f]})
         + Cardinality({f \in {"high_confidence_only"} : q[f]})
    ELSE 0

RECURSIVE SumOfLengths(_, _)
SumOfLengths(q, fields) ==
    IF fields = {} THEN 0
    ELSE LET f == CHOOSE f \in fields : TRUE
         IN  Len(q[f]) + SumOfLengths(q, fields \ {f})

TopLevelPredicates(b) ==
    IF \E i \in 1..Len(b.sql_query) : b.sql_query[i] = Lit("WHERE ")
    THEN 1 + Cardinality({i \in 1..Len(b.sql_query) : b.sql_query[i] = Lit(" AND ")})
    ELSE 0

FilterComplete(q, b, op) ==
    /\ TopLevelPredicates(b)
           = ScalarPredicates(q) + FlagPredicates(q, op)
             + Cardinality({f \in ListFields(op) : q[f] # <<>>})
    /\ Len(b.parameters) = ScalarPredicates(q) + SumOfLengths(q, ListFields(op))
    /\ \A i, j \in 1..Len(b.parameters) :
           b.parameters[i].name = b.parameters[j].name => i = j

FilterCompleteness ==
    Built => \A i \in {1, 2} : FilterComplete(inputs[i], ret.built[i], ret.op)

\* ---- C22
\* Written and queried field names agree: every message document the manager
\* has written carries the field the sequence queries read, holding the
\* number assigned to the message, and every conversation document carries
\* the last-message time and message count under the names the list and
\* search queries read (timeline.lastMessageAt, metrics.messageCount).
FieldNamesAgree ==
    /\ \A d \in messages :
           /\ SequencePath \in DOMAIN d
           /\ d[SequencePath] = MessageFromCosmosDict(d).sequence_number
    /\ \A d \in conversations :
           {"lastMessageAt", "messageCount"} \subseteq DOMAIN d

\* ---- C23
\* Tenant statistics: get_tenant_stats reports total_conversations as the
\* number of all conversations of the manager's tenant, archived and
\* soft-deleted ones included, active_conversations as the number with status
\* active, and archived_conversations as the number with archived = true.
TenantStatistics ==
    (ret.op = "get_tenant_stats" /\ ret.outcome = "returned") =>
        LET own == {d \in conversations : d.tenantId = tenant_id[ret.writer]}
        IN  /\ ret.value.total_conversations = Cardinality(own)
            /\ ret.value.active_conversations
                   = Cardinality({d \in own : d.status = "active"})
            /\ ret.value.archived_conversations
                   = Cardinality({d \in own : d.archived})

\* ---- C24
\* Migration skips what is already migrated: a migrate_all_data run without
\* dry_run and without store failure, started when an earlier run has written
\* the local sessions to the tenant's store, creates no further conversation,
\* adds no further message and records an already-exists warning for each of
\* the sessions.  (Only migration writes to the store here, and a run writes
\* every session, so the tenant's conversations are the sessions written.)
MigrationRan ==
    /\ ret'.op = "migrate_all_data"
    /\ ~ret'.value.dry_run
    /\ ret'.value.failed_conversations = 0

MigrationSkipsMigrated ==
    [][(/\ MigrationRan
        /\ \E d \in conversations : d.tenantId = tenant_id[ret'.writer])
       => /\ conversations' = conversations
          /\ messages' = messages
          /\ \A i \in 1..Len(migration.sessions) :
                 migration.sessions[i].id \in Range(ret'.value.warnings)
      ]_vars

\* ---- C25
\* Tenant isolation: whatever ids a manager bound to one tenant is given, the
\* documents a step of its operation removes, replaces or creates and the
\* message or conversation it returns all belong to that tenant.
Touched(before, after) == (before \ after) \cup (after \ before)

ActedBy(w) == ret'.writer = w \/ pc'[w] # pc[w]

TenantIsolation ==
    [][\A w \in Writers :
           ActedBy(w) =>
               /\ \A d \in Touched(messages, messages') \cup Touched(conversations, conversations') :
                      d.tenantId = tenant_id[w]
               /\ (ret'.writer = w /\ "tenant_id" \in DOMAIN ret'.message)
                      => ret'.message.tenant_id = tenant_id[w]
               /\ (ret'.writer = w /\ "tenant_id" \in DOMAIN ret'.conversation)
                      => ret'.conversation.tenant_id = tenant_id[w]
      ]_vars

\* ---- C26
\* the add_message coroutines of one event loop never interleave: at most one
\* of them is inside its call
NeverInterleave ==
    Cardinality({w \in Writers : pc[w] # "idle"}) <= 1

\* no message_count increment is lost: between calls every stored
\* conversation counts the messages appended to it
NoIncrementLost ==
    AllIdle => \A d \in conversations : d.message_count = appended[d.id]

\* between calls the messages of every conversation carry the sequence
\* numbers 1..n, one each
DistinctConsecutive ==
    AllIdle =>
        \A d \in conversations :
            /\ {m.sequence_number : m \in StoredIn(d.id)} = 1..appended[d.id]
            /\ Cardinality(StoredIn(d.id)) = appended[d.id]

\* Single-process atomicity: add_message coroutines run on one event loop
\* against one manager never interleave, so they receive distinct consecutive
\* sequence numbers and no message_count increment is lost.
SingleProcessAtomicity ==
    /\ NeverInterleave
    /\ DistinctConsecutive
    /\ NoIncrementLost

\* ---- C27
\* Sequence query failure does not fail the append: an add_message call whose
\* max-sequence query raised (every other store call succeeding) returns; the
\* message it returns and the message document it stored carry sequence
\* number 1 whatever the conversation holds, and the stored conversation's
\* first_message_preview is the preview of that message.
SequenceQueryFailure ==
    (ret.op = "add_message" /\ "query_max_sequence_raised" \in ret.calls) =>
        /\ ret.outcome = "returned"
        /\ ret.message.sequence_number = 1
        /\ \E d \in StoredIn(ret.conversation_id) :
               d.id = ret.message.id /\ d.sequence_number = 1
        /\ \A d \in conversations :
               d.id = ret.conversation_id
                   => d.first_message_preview = PreviewOf(ret.message.text)

\* the query raised in a call on a conversation that already held a message;
\* the call returned, two messages are stored, and the first-message preview
\* the call had read has been replaced by the preview of the new message
SequenceQueryFailureWitness ==
    /\ AddMessageReturned
    /\ "query_max_sequence_raised" \in ret.calls
    /\ Cardinality(StoredIn(ret.conversation_id)) = 2
    /\ ret.conversation.message_count = 1
    /\ \E d \in conversations :
           /\ d.id = ret.conversation_id
           /\ d.first_message_preview = PreviewOf(ret.message.text)
           /\ d.first_message_preview # ret.conversation.first_message_preview

\* ---- C28
\* Writes do not touch the search cache: no step of a History Manager
\* operation adds, removes or changes a search-cache entry; and a search whose
\* key has an entry younger than the TTL returns that entry's result without
\* querying the store, whatever has been written since the entry was cached.
WritesLeaveCache ==
    [][/\ (\E w \in Writers : ActedBy(w)) => query_cache' = query_cache
       /\ ret'.op \in SearchOps =>
              \A i \in 1..Len(query_cache) :
                  (query_cache[i].key = ret'.key
                   /\ now - query_cache[i].timestamp < CacheTTL)
                      => /\ ret'.outcome = "returned"
                         /\ ret'.result = query_cache[i].result
                         /\ ret'.calls = {}
                         /\ query_cache' = query_cache
      ]_vars

\* a search has returned from the cache a result that is no longer what the
\* store holds: the conversation was written after the result was cached
WritesLeaveCacheWitness ==
    /\ ret.op = "search_conversations"
    /\ ret.outcome = "returned"
    /\ ret.calls = {}
    /\ conversations # {}
    /\ ret.result # SearchResult(QueryConversationItems(OwnQuery))

\* ---- C29
\* Soft delete does not close a conversation: an add_message call on a
\* conversation that delete_conversation has marked deleted does not raise "not
\* found"; when it returns, its message is stored and the stored conversation
\* still has status deleted and archived true.
SoftDeleteKeepsOpen ==
    [][/\ \A w \in Writers :
              (pc[w] = "idle" /\ ret'.writer = w /\ ret'.op = "add_message"
               /\ ret'.outcome = "raised")
                  => ~ \E d \in conversations :
                           /\ d.id = ret'.conversation_id
                           /\ d.tenantId = tenant_id[w]
                           /\ d.status = "deleted"
       /\ (ret'.op = "add_message" /\ ret'.outcome = "returned"
           /\ ret'.conversation.status = "deleted")
              => /\ \E m \in messages' :
                        m.id = ret'.message.id /\ m.conversationId = ret'.conversation_id
                 /\ \A d \in conversations' :
                        (d.id = ret'.conversation_id
                         /\ d.tenantId = ret'.conversation.tenant_id)
                            => d.status = "deleted" /\ d.archived = TRUE
      ]_vars

\* add_message has returned on a conversation it read as deleted: the message
\* is stored, the count has grown and the conversation is still deleted
SoftDeleteKeepsOpenWitness ==
    /\ AddMessageReturned
    /\ ret.conversation.status = "deleted"
    /\ ret.conversation.archived = TRUE
    /\ \E m \in StoredIn(ret.conversation_id) : m.id = ret.message.id
    /\ \E d \in conversations :
           /\ d.id = ret.conversation_id
           /\ d.status = "deleted"
           /\ d.archived = TRUE
           /\ d.message_count = ret.conversation.message_count + 1

\* ---- C30
\* Participant count: in every conversation document the manager has written
\* (by create_conversation, and by the conversation update that follows
\* add_message) participant_count equals the number of participants.
ParticipantCount ==
    \A d \in conversations : d.participant_count = Len(d.participants)

====
